---- MODULE Spec2Model ----
(***************************************************************************)
(* Model of the luna loader's celestial geometry and label placement.      *)
(*                                                                         *)
(*  - MoonGeometry.nearest_rise_and_set (src/loader/geometry.py) as a      *)
(*    step machine: one step per call into the ephemeris provider          *)
(*    (astral.moon.moonrise / moonset) together with the code that         *)
(*    follows the call up to the next one.                                 *)
(*  - _can_draw_text_at_azimuth (src/loader/luna/annotate.py) as an        *)
(*    operator, applied to inputs drawn from bounded sets.                 *)
(*                                                                         *)
(* Time is counted in whole slots; a UTC calendar date is DayLen slots.    *)
(* A datetime is a record [wall, off]: the wall-clock slot and the UTC     *)
(* offset, both in slots; the instant it denotes is wall - off.            *)
(***************************************************************************)
EXTENDS Integers, Sequences, FiniteSets, TLC

----------------------------------------------------------------------------
(* Bounds of the model *)

\* slots per calendar date
DayLen == 3
\* UTC offsets of the sample's timestamp range over -MaxOff..MaxOff slots
MaxOff == 1
\* how many times the locator is evaluated in one behaviour
MaxEvals == 2
\* occupied azimuths handed to the label test: lists of length 0..MaxOcc
MaxOcc == 2
\* longest rise-to-set interval of the path sampling, in units of ten minutes
MaxSpan == 10
\* latest rise instant of the path sampling, in units of ten minutes
MaxRise == 2
\* longest list of points handed to _interpolate_control_points
MaxKnots == 4
\* hours in a calendar year of the ephemeris lookup
HoursPerYear == 3
\* longest list of delays handed to _fetch_with_retries
MaxDelays == 3
\* number of runs of main that follow the first one
MaxRuns == 2

----------------------------------------------------------------------------
(* Values standing for Python objects that are not timestamps *)

\* Python's None (no event on the date / local not yet assigned)
None == -1
\* the provider raises ValueError for the date
RaisesValueError == -2
\* the provider's fact for a (kind, date) is not determined yet
Unknown == -3
\* cached_property: no entry in the instance __dict__
NotCached == 99

\* the builtin abs of a number
Abs(x) == IF x < 0 THEN 0 - x ELSE x

\* the builtin min of two numbers
Min(x, y) == IF x < y THEN x ELSE y

VARIABLES
    mg,         \* self: the frozen dataclass fields of the sample
    cache,      \* self.__dict__ entries written by cached_property
    pc,         \* position inside nearest_rise_and_set
    rise_dt,    \* local rise_dt (instant in slots, or None)
    set_dt,     \* local set_dt (instant in slots, or None)
    eph,        \* the ephemeris provider's facts, by <<kind, date>>
    asked,      \* provider calls made by the running evaluation, in order
    err,        \* exception that left nearest_rise_and_set ("" = none)
    result,     \* value returned to the caller (<<>> = nothing returned)
    evals,      \* evaluations of nearest_rise_and_set started so far
    prev,       \* outcome of the previous evaluation: <<result, err>>
    az,         \* label test: azimuth of the label
    delta,      \* label test: tolerance
    check_azs,  \* label test: occupied azimuths (a sequence)
    can_draw    \* label test: "unset", or "True" / "False" as returned

VARIABLES
    cur_az,     \* Annotate: self.mg.azimuth
    pair_azs,   \* Annotate: azimuths of self.mg.nearest_rise_and_set (<<>> = it raises)
    mgs,        \* Annotate: azimuths of the geometries passed explicitly (*mgs)
    rise_mg,    \* _draw_moon_path: rise_mg.dt, in units of ten minutes
    set_mg,     \* _draw_moon_path: set_mg.dt, in units of ten minutes
    step,       \* _draw_moon_path: step, in units of ten minutes
    next_dt,    \* _draw_moon_path: next_dt
    times,      \* _draw_moon_path: the list times
    path_pc,    \* _draw_moon_path: position ("start", "loop", "sampled", "done", "raised")
    path_err,   \* _draw_moon_path: exception that left it ("" = none)
    points,     \* _interpolate_control_points: the argument points, a list of <<x, y>>
    points_in,  \* the list as it was when it was passed
    interp_points, \* the returned list, later popped by the caller (<<>> = none)
    first_point,   \* _draw_moon_path: first_point (<<>> = not popped yet)
    curve_pc,   \* "start", "returned", "popped", "raised"
    display_w,  \* Annotate.__init__: display_w
    display_h,  \* Annotate.__init__: display_h
    azimuth_r1, \* Annotate.azimuth_r1 (None before construction)
    azimuth_r2, \* Annotate.azimuth_r2 (None before construction)
    altitude,   \* _lerp_altitude: the argument, in degrees
    lerp90,     \* _lerp_altitude: 90 times the value returned (None = not called)
    ring_pc,    \* "new", "constructed", "lerped"
    smp_aware,  \* MoonGeometry: dt carries a timezone (FALSE = naive)
    smp_gst,    \* degrees: the part of local_sidereal_time that comes from dt
    smp_lat,    \* MoonGeometry.latitude, degrees
    smp_lon,    \* MoonGeometry.longitude, degrees
    smp_ra,     \* MoonGeometry.moon_ra, hours
    smp_dec,    \* MoonGeometry.moon_dec, degrees
    smp_via,    \* "init" = MoonGeometry(...), "for_datetime" = the classmethod
    smp_pc,     \* "new", "constructed", "has_altitude", "has_azimuth", "raised"
    smp_op,     \* the property accessed last ("" = none)
    smp_err,    \* the exception raised ("" = none)
    smp_alt,    \* cached altitude, degrees (NoAngle = not cached)
    smp_az      \* cached azimuth, degrees (NoAngle = not cached)

VARIABLES
    eph_dt,     \* moon_eph_for_datetime: dt, a record [year, hour, minute]
    eph_file,   \* the ephemeris file of dt's year: [exists, rows]
    eph_pc,     \* "start", "returned", "raised"
    eph_row,    \* the MoonImageInfo returned: [time, line] (<<>> = none)
    eph_err     \* the exception raised ("" = none)

VARIABLES
    rt_impl,    \* "main" = main.py's _fetch_with_retries, "finder" = images/finder.py's
    rt_given,   \* the list retries as the caller built it
    rt_retries, \* the list retries now
    rt_outcomes,\* outcome of every urlopen so far: "ok", "URLError", "OSError"
    rt_slept,   \* arguments of the time.sleep calls so far
    rt_pc,      \* "try", "body", "done", "raised"
    rt_err      \* the exception that left the with statement ("" = none)

VARIABLES
    card_labels,\* _draw_cardinal_directions: texts of the labels in draw_commands
    card_pc,    \* "idle", "start", "returned", "raised"
    time_labels \* _draw_moon_path: what draw_commands holds: "path", "rise", "set"

VARIABLES
    run_pc,     \* main: "idle", "fetch", "geometry", "compare", "download", "process",
                \*   "annotate", "except", "display", "cache", "ended", "crashed"
    run_no,     \* number of runs started before this one
    run_argv,   \* TRUE = a display command was given (len(sys.argv) > 1)
    run_dam,    \* dam['image']['url'] (NoFile = nothing fetched yet)
    run_last,   \* last_dam_image (None = no cached url; NoFile = not assigned)
    run_success,\* the flag success
    run_log,    \* the calls of this run in order, each <<function, "ok" or "raised">>
    run_cache0, \* the url in CACHE_JSON_NAME when the run started (None = none)
    disk_cache, \* the url in CACHE_JSON_NAME (None = no file or no url in it)
    disk_raw,   \* CACHE_IMAGE_NAME: the url it was downloaded from
    disk_proc,  \* CACHE_PROCESSED_IMAGE_NAME: the url of the raw image it was made from
    disk_final  \* CACHE_FINAL_IMAGE_NAME: [kind, url], kind "none", "annotated", "debug"

VARIABLES
    zn_a,       \* MoonGeometry.dt of the first sample: [wall, off], in ticks of 12 minutes
    zn_b,       \* MoonGeometry.dt of the second sample: the same instant as zn_a
    zn_lat,     \* latitude of both samples, degrees
    zn_lon,     \* longitude of both samples, degrees
    zn_ra,      \* moon_ra of both samples, hours
    zn_dec,     \* moon_dec of both samples, degrees
    zn_out_a,   \* what the first sample derives: [lst, ha, alt, az] (<<>> = not yet)
    zn_out_b    \* what the second sample derives

VARIABLES
    ind_az100,  \* _draw_indicator: self.mg.azimuth, in hundredths of a degree
    ind_cmds,   \* _draw_indicator: indicator_draw_commands
    ind_text    \* _draw_indicator: placement of the time text (<<>> = none drawn)

locVars == <<mg, cache, pc, rise_dt, set_dt, eph, asked, err, result, evals, prev>>
labVars == <<az, delta, check_azs, can_draw>>
annVars == <<cur_az, pair_azs, mgs>>
pathVars == <<rise_mg, set_mg, step, next_dt, times, path_pc, path_err>>

\* the variables of the components added after the locator and the label test
curveVars == <<points, points_in, interp_points, first_point, curve_pc>>
ringVars == <<display_w, display_h, azimuth_r1, azimuth_r2, altitude, lerp90, ring_pc>>
smpVars == <<smp_aware, smp_gst, smp_lat, smp_lon, smp_ra, smp_dec, smp_via,
             smp_pc, smp_op, smp_err, smp_alt, smp_az>>
ephVars == <<eph_dt, eph_file, eph_pc, eph_row, eph_err>>

\* the components outside of geometry.py and the annotation drawing
retryVars == <<rt_impl, rt_given, rt_retries, rt_outcomes, rt_slept, rt_pc, rt_err>>
indVars == <<ind_az100, ind_cmds, ind_text>>
lblVars == <<card_labels, card_pc, time_labels>>
runVars == <<run_pc, run_no, run_argv, run_dam, run_last, run_success, run_log, run_cache0,
             disk_cache, disk_raw, disk_proc, disk_final>>
znVars == <<zn_a, zn_b, zn_lat, zn_lon, zn_ra, zn_dec, zn_out_a, zn_out_b>>
extVars == <<ephVars, retryVars, indVars, lblVars, runVars, znVars>>
auxVars == <<annVars, pathVars, curveVars, ringVars, smpVars, extVars>>

vars == <<locVars, labVars, auxVars>>

\* Annotate._can_draw_text_at_azimuth is not in use
AnnotateIdle ==
    /\ cur_az = 0
    /\ pair_azs = <<>>
    /\ mgs = <<>>

\* _draw_moon_path is not in use
PathIdle ==
    /\ rise_mg = 0
    /\ set_mg = 0
    /\ step = 0
    /\ next_dt = 0
    /\ times = <<>>
    /\ path_pc = "idle"
    /\ path_err = ""

\* _interpolate_control_points is not in use
CurveIdle ==
    /\ points = <<>>
    /\ points_in = <<>>
    /\ interp_points = <<>>
    /\ first_point = <<>>
    /\ curve_pc = "idle"

\* the ring geometry of Annotate is not in use
RingIdle ==
    /\ display_w = 0
    /\ display_h = 0
    /\ azimuth_r1 = None
    /\ azimuth_r2 = None
    /\ altitude = 0
    /\ lerp90 = None
    /\ ring_pc = "idle"

\* cached_property of an angle: no entry in the instance __dict__
NoAngle == 999

\* no Moon position sample is being built
SampleIdle ==
    /\ smp_aware = TRUE
    /\ smp_gst = 0
    /\ smp_lat = 0
    /\ smp_lon = 0
    /\ smp_ra = 0
    /\ smp_dec = 0
    /\ smp_via = "idle"
    /\ smp_pc = "idle"
    /\ smp_op = ""
    /\ smp_err = ""
    /\ smp_alt = NoAngle
    /\ smp_az = NoAngle

\* moon_eph_for_datetime is not in use
EphemerisIdle ==
    /\ eph_dt = [year |-> 0, hour |-> 0, minute |-> 0]
    /\ eph_file = [exists |-> FALSE, rows |-> <<>>]
    /\ eph_pc = "idle"
    /\ eph_row = <<>>
    /\ eph_err = ""

\* _fetch_with_retries is not in use
RetryIdle ==
    /\ rt_impl = "idle"
    /\ rt_given = <<>>
    /\ rt_retries = <<>>
    /\ rt_outcomes = <<>>
    /\ rt_slept = <<>>
    /\ rt_pc = "idle"
    /\ rt_err = ""

\* _draw_indicator is not in use
IndicatorIdle ==
    /\ ind_az100 = 0
    /\ ind_cmds = <<>>
    /\ ind_text = <<>>

\* neither _draw_cardinal_directions nor the time labels are in use
LabelsIdle ==
    /\ card_labels = <<>>
    /\ card_pc = "idle"
    /\ time_labels = <<>>

\* a file that does not exist
NoFile == 0
\* a file opened for writing whose content was never written
Truncated == -4

\* main is not in use
RunIdle ==
    /\ run_pc = "idle"
    /\ run_no = 0
    /\ run_argv = FALSE
    /\ run_dam = NoFile
    /\ run_last = NoFile
    /\ run_success = FALSE
    /\ run_log = <<>>
    /\ run_cache0 = None
    /\ disk_cache = None
    /\ disk_raw = NoFile
    /\ disk_proc = NoFile
    /\ disk_final = [kind |-> "none", url |-> NoFile]

\* no pair of samples of one instant is in use
ZoneIdle ==
    /\ zn_a = [wall |-> 0, off |-> 0]
    /\ zn_b = [wall |-> 0, off |-> 0]
    /\ zn_lat = 0
    /\ zn_lon = 0
    /\ zn_ra = 0
    /\ zn_dec = 0
    /\ zn_out_a = <<>>
    /\ zn_out_b = <<>>

ExtIdle ==
    /\ EphemerisIdle
    /\ RetryIdle
    /\ IndicatorIdle
    /\ LabelsIdle
    /\ RunIdle
    /\ ZoneIdle

AuxIdle ==
    /\ AnnotateIdle
    /\ PathIdle
    /\ CurveIdle
    /\ RingIdle
    /\ SampleIdle
    /\ ExtIdle

\* the variables of geometry.py and of the annotation drawing
coreVars == <<locVars, labVars, annVars, pathVars, curveVars, ringVars, smpVars>>

----------------------------------------------------------------------------
(* datetime arithmetic *)

\* the instant an aware datetime denotes (what == < > on datetimes compare)
Instant(d) == d.wall - d.off

\* dt.astimezone(timezone.utc): same instant, offset 0
AsTimezoneUTC(d) == [wall |-> d.wall - d.off, off |-> 0]

\* the calendar date (year, month, day) astral reads from a datetime
DateOf(d) == d.wall \div DayLen

\* d + timedelta(days=n)
PlusDays_mut(d, n) == d
PlusDays(d, n) == [wall |-> d.wall + n * DayLen, off |-> d.off]

\* a UTC datetime for an instant returned by the provider
UTC(t) == [wall |-> t, off |-> 0]

----------------------------------------------------------------------------
(* The ephemeris provider (astral.moon.moonrise / moonset), an external    *)
(* collaborator: for a calendar date it answers an instant on that date,   *)
(* None, or raises ValueError.  It is deterministic: a fact, once          *)
(* determined, is the answer to every later call for the same date.  The   *)
(* facts of the sample's own UTC date are determined from the start, those *)
(* of the other dates when they are first asked for.                       *)

\* the date on which the wall clock of the sample lies
NowDate == 1 + (MaxOff + DayLen - 1) \div DayLen
MaxDate == 2 * NowDate + 1
Dates == 0..MaxDate
Kinds == {"rise", "set"}

OnDate(d) == (d * DayLen)..(d * DayLen + DayLen - 1)
Facts(d) == OnDate(d) \cup {None, RaisesValueError}

\* what a call for <<kind, d>> can answer in the current state
CanAnswer(kind, d) ==
    IF eph[<<kind, d>>] = Unknown THEN Facts(d) ELSE {eph[<<kind, d>>]}

----------------------------------------------------------------------------
(* MoonGeometry: derived properties *)

\* altitude (degrees).  The arcsine of the spherical-trigonometry sum is not
\* computed here: latitude, longitude, moon_ra and moon_dec are free inputs
\* of the constructor, and the sample carries the altitude they yield at dt.
Altitude(s) == s.moon_alt

\* cached_property.__get__: the cached entry if there is one, else compute
CachedAltitude_mut(s, c) == IF c.altitude # NotCached THEN 0 - c.altitude ELSE Altitude(s)
CachedAltitude(s, c) == IF c.altitude # NotCached THEN c.altitude ELSE Altitude(s)

EmptyCache == [altitude |-> NotCached, nearest_rise_and_set |-> <<>>]

\* line 127: the date's rise is unusable when the moon is up
RiseNotYet_mut(rise, now) == rise = None \/ rise >= now
RiseNotYet(rise, now) == rise = None \/ rise > now

\* line 132: the date's rise is unusable when the moon is down
RisePassed_mut(rise, now) == rise = None \/ rise <= now
RisePassed_keep(rise, now) == rise = None
RisePassed(rise, now) == rise = None \/ rise < now

\* line 143: the set found on the rise's date is unusable
SetBeforeRise_mut(set, rise) == set = None
SetBeforeRise(set, rise) == set = None \/ set < rise

\* line 135: assert rise_dt is not None
AssertRise(rise) == rise # None

\* line 145: assert set_dt is not None
AssertSet_mut(set) == TRUE
AssertSet(set) == set # None

\* lines 148-153: the pair of samples returned (only dt is carried)
RiseSetPair(rise, set) == << [dt |-> UTC(rise)], [dt |-> UTC(set)] >>

Terminal == {"returned", "raised"}
Outcome == <<result, err>>

----------------------------------------------------------------------------
(* Initial states *)

AltValues == {-1, 0, 1}
Offsets == (0 - MaxOff)..MaxOff

Samples ==
    { [dt |-> [wall |-> w, off |-> o], moon_alt |-> a] :
        w \in OnDate(NowDate), o \in Offsets, a \in AltValues }

LabelIdle ==
    /\ az = 0
    /\ delta = 1
    /\ check_azs = <<>>
    /\ can_draw = "unset"

Init ==
    /\ mg \in Samples
    /\ cache = EmptyCache
    /\ pc = "idle"
    /\ rise_dt = None
    /\ set_dt = None
    /\ \E r \in Facts(DateOf(AsTimezoneUTC(mg.dt))),
          s \in Facts(DateOf(AsTimezoneUTC(mg.dt))) :
         eph = [q \in Kinds \X Dates |->
                  IF q = <<"rise", DateOf(AsTimezoneUTC(mg.dt))>> THEN r
                  ELSE IF q = <<"set", DateOf(AsTimezoneUTC(mg.dt))>> THEN s
                  ELSE Unknown]
    /\ asked = <<>>
    /\ err = ""
    /\ result = <<>>
    /\ evals = 0
    /\ prev = <<>>
    /\ LabelIdle
    /\ AuxIdle

----------------------------------------------------------------------------
(* nearest_rise_and_set *)

\* the caller reads mg.altitude (cached_property, lines 94-98)
EvalAltitude ==
    /\ pc \in Terminal \cup {"idle"}
    /\ cache.altitude = NotCached
    /\ cache' = [cache EXCEPT !.altitude = Altitude(mg)]
    /\ UNCHANGED <<mg, pc, rise_dt, set_dt, eph, asked, err, result, evals, prev>>
    /\ UNCHANGED <<labVars, auxVars>>

\* the caller reads mg.nearest_rise_and_set (cached_property, line 111):
\* a cached pair is returned as is, otherwise the body starts
CallNearest ==
    /\ pc \in Terminal \cup {"idle"}
    /\ evals < MaxEvals
    /\ evals' = evals + 1
    /\ prev' = IF evals = 0 THEN <<>> ELSE Outcome
    /\ err' = ""
    /\ IF cache.nearest_rise_and_set # <<>>
         THEN /\ result' = cache.nearest_rise_and_set
              /\ pc' = "returned"
              /\ UNCHANGED <<rise_dt, set_dt, asked>>
         ELSE /\ result' = <<>>
              /\ pc' = "line120"
              /\ rise_dt' = None
              /\ set_dt' = None
              /\ asked' = <<>>
    /\ UNCHANGED <<mg, cache, eph>>
    /\ UNCHANGED <<labVars, auxVars>>

\* the caller builds a second sample with equal fields (dataclass __eq__) and
\* reads its nearest_rise_and_set: nothing is cached on the new object
CallNearestOnEqualSample ==
    /\ pc \in Terminal
    /\ evals < MaxEvals
    /\ evals' = evals + 1
    /\ prev' = Outcome
    /\ err' = ""
    /\ cache' = EmptyCache
    /\ result' = <<>>
    /\ pc' = "line120"
    /\ rise_dt' = None
    /\ set_dt' = None
    /\ asked' = <<>>
    /\ UNCHANGED <<mg, eph>>
    /\ UNCHANGED <<labVars, auxVars>>

\* lines 116-124: the rise of dt's UTC date; ValueError counts as no rise
Moonrise ==
    /\ pc = "line120"
    /\ LET dt == AsTimezoneUTC(mg.dt)
           q == <<"rise", DateOf(dt)>>
       IN \E ans \in CanAnswer("rise", DateOf(dt)) :
            /\ eph' = [eph EXCEPT ![q] = ans]
            /\ asked' = Append(asked, q)
            /\ rise_dt' = IF ans = RaisesValueError THEN None ELSE ans
    /\ pc' = "line125"
    /\ UNCHANGED <<mg, cache, set_dt, err, result, evals, prev>>
    /\ UNCHANGED <<labVars, auxVars>>

\* lines 125-135, neither inner condition holds: the date's rise is displayed
RiseKept ==
    /\ pc = "line125"
    /\ LET dt == AsTimezoneUTC(mg.dt)
       IN IF CachedAltitude(mg, cache) > 0
            THEN ~ RiseNotYet(rise_dt, Instant(dt))
            ELSE ~ RisePassed(rise_dt, Instant(dt))
    /\ cache' = [cache EXCEPT !.altitude = CachedAltitude(mg, cache)]
    /\ IF AssertRise(rise_dt)
         THEN pc' = "line138" /\ err' = err
         ELSE pc' = "raised" /\ err' = "AssertionError"
    /\ UNCHANGED <<mg, rise_dt, set_dt, eph, asked, result, evals, prev>>
    /\ UNCHANGED <<labVars, auxVars>>

\* line 128 / line 133: the uncaught call for an adjacent date, then line 135
RiseRetry(d) ==
    LET q == <<"rise", d>>
    IN \E ans \in CanAnswer("rise", d) :
         /\ eph' = [eph EXCEPT ![q] = ans]
         /\ asked' = Append(asked, q)
         /\ IF ans = RaisesValueError
              THEN /\ pc' = "raised"
                   /\ err' = "ValueError"
                   /\ rise_dt' = rise_dt
              ELSE /\ rise_dt' = ans
                   /\ IF AssertRise(ans)
                        THEN pc' = "line138" /\ err' = err
                        ELSE pc' = "raised" /\ err' = "AssertionError"

\* lines 125-129: moon is up, the rise of the previous date is displayed
RisePrevious ==
    /\ pc = "line125"
    /\ CachedAltitude(mg, cache) > 0
    /\ RiseNotYet(rise_dt, Instant(AsTimezoneUTC(mg.dt)))
    /\ cache' = [cache EXCEPT !.altitude = CachedAltitude(mg, cache)]
    /\ RiseRetry(DateOf(PlusDays(AsTimezoneUTC(mg.dt), -1)))
    /\ UNCHANGED <<mg, set_dt, result, evals, prev>>
    /\ UNCHANGED <<labVars, auxVars>>

\* lines 130-134: moon is not up, the rise of the next date is displayed
RiseNext ==
    /\ pc = "line125"
    /\ ~ (CachedAltitude(mg, cache) > 0)
    /\ RisePassed(rise_dt, Instant(AsTimezoneUTC(mg.dt)))
    /\ cache' = [cache EXCEPT !.altitude = CachedAltitude(mg, cache)]
    /\ RiseRetry(DateOf(PlusDays(AsTimezoneUTC(mg.dt), 1)))
    /\ UNCHANGED <<mg, set_dt, result, evals, prev>>
    /\ UNCHANGED <<labVars, auxVars>>

\* lines 137-142: the set of the rise's date; ValueError counts as no set
Moonset ==
    /\ pc = "line138"
    /\ LET q == <<"set", DateOf(UTC(rise_dt))>>
       IN \E ans \in CanAnswer("set", DateOf(UTC(rise_dt))) :
            /\ eph' = [eph EXCEPT ![q] = ans]
            /\ asked' = Append(asked, q)
            /\ set_dt' = IF ans = RaisesValueError THEN None ELSE ans
    /\ pc' = "line143"
    /\ UNCHANGED <<mg, cache, rise_dt, err, result, evals, prev>>
    /\ UNCHANGED <<labVars, auxVars>>

\* lines 145-153 with the set s: the assertion, then the pair is built,
\* stored by cached_property and returned
ReturnPair(s) ==
    /\ set_dt' = s
    /\ IF AssertSet(s)
         THEN /\ result' = RiseSetPair(rise_dt, s)
              /\ cache' = [cache EXCEPT !.nearest_rise_and_set = RiseSetPair(rise_dt, s)]
              /\ pc' = "returned"
              /\ err' = err
         ELSE /\ result' = result
              /\ cache' = cache
              /\ pc' = "raised"
              /\ err' = "AssertionError"

\* line 143 false: the set of the rise's date is displayed
SetKept ==
    /\ pc = "line143"
    /\ ~ SetBeforeRise(set_dt, rise_dt)
    /\ ReturnPair(set_dt)
    /\ UNCHANGED <<mg, rise_dt, eph, asked, evals, prev>>
    /\ UNCHANGED <<labVars, auxVars>>

\* lines 143-144: the uncaught call for the rise's date plus one day
SetNextDay ==
    /\ pc = "line143"
    /\ SetBeforeRise(set_dt, rise_dt)
    /\ LET d == DateOf(PlusDays(UTC(rise_dt), 1))
           q == <<"set", d>>
       IN \E ans \in CanAnswer("set", d) :
            /\ eph' = [eph EXCEPT ![q] = ans]
            /\ asked' = Append(asked, q)
            /\ IF ans = RaisesValueError
                 THEN /\ pc' = "raised"
                      /\ err' = "ValueError"
                      /\ UNCHANGED <<set_dt, result, cache>>
                 ELSE ReturnPair(ans)
    /\ UNCHANGED <<mg, rise_dt, evals, prev>>
    /\ UNCHANGED <<labVars, auxVars>>

Next ==
    \/ EvalAltitude
    \/ CallNearest
    \/ CallNearestOnEqualSample
    \/ Moonrise
    \/ RiseKept
    \/ RisePrevious
    \/ RiseNext
    \/ Moonset
    \/ SetKept
    \/ SetNextDay

Spec == Init /\ [][Next]_vars

----------------------------------------------------------------------------
(* _can_draw_text_at_azimuth (luna/annotate.py, module level) *)

\* degrees in a full turn (the literal 360 of lines 339 and 341)
FullTurn == 360

\* lines 337-341: the occupied azimuth caz blocks a label at a
Blocks_mut(a, d, caz) ==
    \/ (caz - d) < a /\ a < (caz + d)
    \/ (caz < d /\ ((caz - d) % FullTurn) < a)
Blocks(a, d, caz) ==
    \/ (caz - d) < a /\ a < (caz + d)
    \/ (caz < d /\ ((caz - d) % FullTurn) < a)
    \/ (FullTurn - caz < d /\ a < ((caz + d) % FullTurn))

\* lines 335-342: not any(... for caz in check_azs)
CanDrawTextAtAzimuth_mut(a, d, cazs) ==
    \E i \in 1..Len(cazs) : Blocks(a, d, cazs[i])
CanDrawTextAtAzimuth(a, d, cazs) ==
    ~ \E i \in 1..Len(cazs) : Blocks(a, d, cazs[i])

\* inputs of the label test: label azimuths, tolerances, occupied azimuths
LabelAzs == {0, 1, 75, 90, 180, 270, 359}
Deltas == {1, 3, 4, 8, 180}
OccAzs == {0, 1, 2, 3, 4, 8, 10, 87, 90, 93, 177, 179, 180, 181, 183, 270,
           352, 356, 357, 358, 359}
\* lists of up to MaxOcc of these, and every single azimuth of the circle
OccLists ==
    UNION { [1..n -> OccAzs] : n \in 0..MaxOcc }
        \cup { <<c>> : c \in 0..(FullTurn - 1) }

LocatorIdle ==
    /\ mg = [dt |-> [wall |-> NowDate * DayLen, off |-> 0], moon_alt |-> 0]
    /\ cache = EmptyCache
    /\ pc = "idle"
    /\ rise_dt = None
    /\ set_dt = None
    /\ eph = [q \in Kinds \X Dates |-> Unknown]
    /\ asked = <<>>
    /\ err = ""
    /\ result = <<>>
    /\ evals = 0
    /\ prev = <<>>

\* geometry.py and the annotation drawing are not in use
CoreIdle ==
    /\ LocatorIdle
    /\ LabelIdle
    /\ AnnotateIdle
    /\ PathIdle
    /\ CurveIdle
    /\ RingIdle
    /\ SampleIdle

\* everything but moon_eph_for_datetime
notEphVars == <<coreVars, retryVars, indVars, lblVars, runVars, znVars>>
NotEphIdle ==
    /\ CoreIdle
    /\ RetryIdle
    /\ IndicatorIdle
    /\ LabelsIdle
    /\ RunIdle
    /\ ZoneIdle

\* everything but _fetch_with_retries
notRetryVars == <<coreVars, ephVars, indVars, lblVars, runVars, znVars>>
NotRetryIdle ==
    /\ CoreIdle
    /\ EphemerisIdle
    /\ IndicatorIdle
    /\ LabelsIdle
    /\ RunIdle
    /\ ZoneIdle

\* everything but the ring geometry and _draw_indicator
notIndVars == <<locVars, labVars, annVars, pathVars, curveVars, smpVars, ephVars, retryVars, lblVars,
               runVars, znVars>>
NotIndIdle ==
    /\ LocatorIdle
    /\ LabelIdle
    /\ AnnotateIdle
    /\ PathIdle
    /\ CurveIdle
    /\ SampleIdle
    /\ EphemerisIdle
    /\ RetryIdle
    /\ LabelsIdle
    /\ RunIdle
    /\ ZoneIdle

\* everything but the label drawing and what it reads
notLblVars == <<locVars, labVars, curveVars, ringVars, smpVars, ephVars, retryVars, indVars,
               runVars, znVars>>
NotLblIdle ==
    /\ LocatorIdle
    /\ LabelIdle
    /\ CurveIdle
    /\ RingIdle
    /\ SampleIdle
    /\ EphemerisIdle
    /\ RetryIdle
    /\ IndicatorIdle
    /\ RunIdle
    /\ ZoneIdle

\* everything but main
notRunVars == <<coreVars, ephVars, retryVars, indVars, lblVars, znVars>>
NotRunIdle ==
    /\ CoreIdle
    /\ EphemerisIdle
    /\ RetryIdle
    /\ IndicatorIdle
    /\ LabelsIdle
    /\ ZoneIdle

\* everything but the pair of samples of one instant
notZnVars == <<coreVars, ephVars, retryVars, indVars, lblVars, runVars>>
NotZnIdle ==
    /\ CoreIdle
    /\ EphemerisIdle
    /\ RetryIdle
    /\ IndicatorIdle
    /\ LabelsIdle
    /\ RunIdle

InitLabel ==
    /\ LocatorIdle
    /\ AuxIdle
    /\ az \in LabelAzs
    /\ delta \in Deltas
    /\ check_azs \in OccLists
    /\ can_draw = "unset"

\* one call of _can_draw_text_at_azimuth(az, delta, check_azs)
CanDraw ==
    /\ can_draw = "unset"
    /\ can_draw' = IF CanDrawTextAtAzimuth(az, delta, check_azs) THEN "True" ELSE "False"
    /\ UNCHANGED <<az, delta, check_azs>>
    /\ UNCHANGED <<locVars, auxVars>>

NextLabel == CanDraw

SpecLabel == InitLabel /\ [][NextLabel]_vars

----------------------------------------------------------------------------
(* Annotate._can_draw_text_at_azimuth (luna/annotate.py lines 42-46) *)

\* Annotate._can_draw_text_at_azimuth: default of the keyword delta (line 42)
DefaultDelta == 4
\* _draw_moon_path: text_width_delta (line 247)
TextWidthDelta == 8

\* lines 44-46: the azimuths checked: those of the geometries passed, or of
\* (self.mg, *self.mg.nearest_rise_and_set) when none is passed
OccupiedAzimuths_mut(given, cur, pair) == IF given = <<>> THEN pair ELSE given
OccupiedAzimuths(given, cur, pair) == IF given = <<>> THEN <<cur>> \o pair ELSE given

\* azimuths of the current position, the rise and the set
GeoAzs == {0, 3, 4, 86, 92, 128, 264, 357}

InitAnnotate ==
    /\ LocatorIdle
    /\ ExtIdle
    /\ PathIdle
    /\ CurveIdle
    /\ RingIdle
    /\ SampleIdle
    /\ cur_az \in GeoAzs
    /\ pair_azs \in {<<>>} \cup {<<r, s>> : r \in GeoAzs, s \in GeoAzs}
    /\ \E given \in SUBSET {"self", "rise", "set"} :
         /\ ("rise" \in given \/ "set" \in given) => pair_azs # <<>>
         /\ mgs = (IF "self" \in given THEN <<cur_az>> ELSE <<>>)
                  \o (IF "rise" \in given THEN <<pair_azs[1]>> ELSE <<>>)
                  \o (IF "set" \in given THEN <<pair_azs[2]>> ELSE <<>>)
    /\ az \in {0, 90, 180, 270, cur_az}
    /\ delta \in {DefaultDelta, TextWidthDelta}
    /\ check_azs = <<>>
    /\ can_draw = "unset"

\* one call of Annotate._can_draw_text_at_azimuth(az, *mgs, delta=delta);
\* evaluating self.mg.nearest_rise_and_set (line 45) may raise
AnnotateCanDraw ==
    /\ can_draw = "unset"
    /\ IF mgs = <<>> /\ pair_azs = <<>>
         THEN /\ can_draw' = "raised"
              /\ check_azs' = check_azs
         ELSE /\ check_azs' = OccupiedAzimuths(mgs, cur_az, pair_azs)
              /\ can_draw' = IF CanDrawTextAtAzimuth(az, delta, OccupiedAzimuths(mgs, cur_az, pair_azs))
                               THEN "True" ELSE "False"
    /\ UNCHANGED <<az, delta>>
    /\ UNCHANGED <<locVars, annVars, pathVars, curveVars, ringVars, smpVars, extVars>>

NextAnnotate == AnnotateCanDraw

SpecAnnotate == InitAnnotate /\ [][NextAnnotate]_vars

----------------------------------------------------------------------------
(* Annotate._draw_moon_path: sampling of the rise-to-set interval          *)
(* (luna/annotate.py lines 198-220, annotate.py lines 138-171).  Instants  *)
(* are counted in units of ten minutes.                                    *)

\* luna/annotate.py line 202: step = timedelta(hours=0.5)
HalfHourStep == 3
\* annotate.py line 142: step = timedelta(hours=1)
HourStep == 6

\* line 204 (annotate.py line 144): while next_dt < set_mg.dt
KeepSampling_mut(next, set) == next <= set
KeepSampling(next, set) == next < set

\* _interpolate_control_points line 282: assert len(points) > 2
AssertKnots(n) == n > 2

\* the pairs handed over by the locator: the rise is never after the set
InitPath ==
    /\ LocatorIdle
    /\ ExtIdle
    /\ LabelIdle
    /\ AnnotateIdle
    /\ CurveIdle
    /\ RingIdle
    /\ SampleIdle
    /\ rise_mg \in 0..MaxRise
    /\ set_mg \in rise_mg..(rise_mg + MaxSpan)
    /\ step \in {HalfHourStep, HourStep}
    /\ next_dt = 0
    /\ times = <<>>
    /\ path_pc = "start"
    /\ path_err = ""

\* lines 198-203
PathStart ==
    /\ path_pc = "start"
    /\ times' = <<>>
    /\ next_dt' = rise_mg
    /\ path_pc' = "loop"
    /\ UNCHANGED <<rise_mg, set_mg, step, path_err>>
    /\ UNCHANGED <<locVars, labVars, annVars, curveVars, ringVars, smpVars, extVars>>

\* lines 204-206: one pass through the loop body
SampleNext ==
    /\ path_pc = "loop"
    /\ KeepSampling(next_dt, set_mg)
    /\ times' = Append(times, next_dt)
    /\ next_dt' = next_dt + step
    /\ UNCHANGED <<rise_mg, set_mg, step, path_pc, path_err>>
    /\ UNCHANGED <<locVars, labVars, annVars, curveVars, ringVars, smpVars, extVars>>

\* line 204 false, then line 207: times.append(set_mg.dt)
SampleSet ==
    /\ path_pc = "loop"
    /\ ~ KeepSampling(next_dt, set_mg)
    /\ times' = Append(times, set_mg)
    /\ path_pc' = "sampled"
    /\ UNCHANGED <<rise_mg, set_mg, step, next_dt, path_err>>
    /\ UNCHANGED <<locVars, labVars, annVars, curveVars, ringVars, smpVars, extVars>>

\* luna/annotate.py lines 211-224: one point per time, then the curve fitter,
\* whose assertion needs more than two knots
FitCurve ==
    /\ path_pc = "sampled"
    /\ step = HalfHourStep
    /\ IF AssertKnots(Len(times))
         THEN path_pc' = "done" /\ path_err' = ""
         ELSE path_pc' = "raised" /\ path_err' = "AssertionError"
    /\ UNCHANGED <<rise_mg, set_mg, step, next_dt, times>>
    /\ UNCHANGED <<locVars, labVars, annVars, curveVars, ringVars, smpVars, extVars>>

\* annotate.py lines 151-187: a point per time, two control points before
\* every point but the first; points.pop(0), then points[-1] is read
LegacyCurve ==
    /\ path_pc = "sampled"
    /\ step = HourStep
    /\ IF 3 * Len(times) - 2 - 1 > 0
         THEN path_pc' = "done" /\ path_err' = ""
         ELSE path_pc' = "raised" /\ path_err' = "IndexError"
    /\ UNCHANGED <<rise_mg, set_mg, step, next_dt, times>>
    /\ UNCHANGED <<locVars, labVars, annVars, curveVars, ringVars, smpVars, extVars>>

NextPath ==
    \/ PathStart
    \/ SampleNext
    \/ SampleSet
    \/ FitCurve
    \/ LegacyCurve

SpecPath == InitPath /\ [][NextPath]_vars

\* the call runs on: a single thread executes the method to its end
SpecPathFair == SpecPath /\ WF_vars(NextPath)

----------------------------------------------------------------------------
(* _interpolate_control_points (luna/annotate.py lines 272-296) and the    *)
(* caller's points.pop(0) (line 224).  A point is a pair <<x, y>>; the     *)
(* coordinates are multiples of KDen, so that multiplying by k is exact.   *)

\* line 272: k = 0.2, as the fraction KNum / KDen
KNum == 1
KDen == 5

\* line 284: interp_points = [points[0], points[0]]
CurveHead_mut(pts) == <<pts[1]>>
CurveHead(pts) == <<pts[1], pts[1]>>

\* line 295: interp_points += [points[-1], points[-1]]
CurveTail_mut(pts) == <<pts[Len(pts)]>>
CurveTail(pts) == <<pts[Len(pts)], pts[Len(pts)]>>

\* lines 288-293: [pcp, p, ncp] for the previous, current and next point
ControlPoints_mut(pp, p, np) ==
    LET dp == <<np[1] - p[1], np[2] - p[2]>>
        pcp == <<p[1] - (dp[1] * KNum) \div KDen, p[2] - (dp[2] * KNum) \div KDen>>
        ncp == <<p[1] + (dp[1] * KNum) \div KDen, p[2] + (dp[2] * KNum) \div KDen>>
    IN  <<pcp, p, ncp>>
ControlPoints(pp, p, np) ==
    LET dp == <<np[1] - pp[1], np[2] - pp[2]>>
        pcp == <<p[1] - (dp[1] * KNum) \div KDen, p[2] - (dp[2] * KNum) \div KDen>>
        ncp == <<p[1] + (dp[1] * KNum) \div KDen, p[2] + (dp[2] * KNum) \div KDen>>
    IN  <<pcp, p, ncp>>

\* lines 286-293: the loop over every point but the first and the last,
\* from (1-based) position i on
RECURSIVE InnerPoints(_, _)
InnerPoints(pts, i) ==
    IF i > Len(pts) - 1
      THEN <<>>
      ELSE ControlPoints(pts[i - 1], pts[i], pts[i + 1]) \o InnerPoints(pts, i + 1)

\* lines 284-296, once the assertion has passed
InterpolateControlPoints(pts) ==
    CurveHead(pts) \o InnerPoints(pts, 2) \o CurveTail(pts)

PointSet == {<<KDen * a, KDen * b>> : a \in -1..1, b \in 0..1}

PointLists == UNION {[1..n -> PointSet] : n \in 0..MaxKnots}

InitCurve ==
    /\ LocatorIdle
    /\ ExtIdle
    /\ LabelIdle
    /\ AnnotateIdle
    /\ PathIdle
    /\ RingIdle
    /\ SampleIdle
    /\ points \in PointLists
    /\ points_in = points
    /\ interp_points = <<>>
    /\ first_point = <<>>
    /\ curve_pc = "start"

\* lines 282-296: the whole call
Interpolate ==
    /\ curve_pc = "start"
    /\ IF AssertKnots(Len(points))
         THEN /\ interp_points' = InterpolateControlPoints(points)
              /\ curve_pc' = "returned"
         ELSE /\ interp_points' = interp_points
              /\ curve_pc' = "raised"
    /\ UNCHANGED <<points, points_in, first_point>>
    /\ UNCHANGED <<locVars, labVars, annVars, pathVars, ringVars, smpVars, extVars>>

\* line 224: first_point = points.pop(0), on the returned list
PopFirst ==
    /\ curve_pc = "returned"
    /\ first_point' = Head(interp_points)
    /\ interp_points' = Tail(interp_points)
    /\ curve_pc' = "popped"
    /\ UNCHANGED <<points, points_in>>
    /\ UNCHANGED <<locVars, labVars, annVars, pathVars, ringVars, smpVars, extVars>>

NextCurve ==
    \/ Interpolate
    \/ PopFirst

SpecCurve == InitCurve /\ [][NextCurve]_vars

----------------------------------------------------------------------------
(* The annotation ring: Annotate.__init__ (luna/annotate.py lines 20-29)   *)
(* and Annotate._lerp_altitude (lines 36-40).  The interpolated radius is  *)
(* kept as 90 times its value, so that altitude / 90.0 needs no fraction.  *)

\* line 22: annotate_ring_width = 70
AnnotateRingWidth == 70
\* line 13: indicator_r = 10
IndicatorR == 10
\* line 40: altitude / 90.0
Zenith == 90

\* line 23: min(display_w, display_h) // 2 - 0
AzimuthR2(w, h) == Min(w, h) \div 2 - 0

\* line 24: self.azimuth_r2 - annotate_ring_width
AzimuthR1(r2) == r2 - AnnotateRingWidth

\* lines 38-40, times 90
LerpAltitude90_mut(alt, r1, r2) ==
    LET outer == r2
        inner == r1
    IN  alt * (outer - inner) + Zenith * inner
LerpAltitude90(alt, r1, r2) ==
    LET outer == r2 - IndicatorR
        inner == r1 + IndicatorR
    IN  alt * (outer - inner) + Zenith * inner

DisplaySizes == {600, 601, 1404, 1872}

LerpAltitudes == {-10, 0, 1, 30, 45, 89, 90}

InitRing ==
    /\ LocatorIdle
    /\ ExtIdle
    /\ LabelIdle
    /\ AnnotateIdle
    /\ PathIdle
    /\ CurveIdle
    /\ SampleIdle
    /\ display_w \in DisplaySizes
    /\ display_h \in DisplaySizes
    /\ altitude \in LerpAltitudes
    /\ azimuth_r1 = None
    /\ azimuth_r2 = None
    /\ lerp90 = None
    /\ ring_pc = "new"

\* lines 20-29
Construct ==
    /\ ring_pc = "new"
    /\ azimuth_r2' = AzimuthR2(display_w, display_h)
    /\ azimuth_r1' = AzimuthR1(AzimuthR2(display_w, display_h))
    /\ ring_pc' = "constructed"
    /\ UNCHANGED <<display_w, display_h, altitude, lerp90>>
    /\ UNCHANGED <<locVars, labVars, annVars, pathVars, curveVars, smpVars, extVars>>

\* lines 36-40
Lerp ==
    /\ ring_pc = "constructed"
    /\ lerp90' = LerpAltitude90(altitude, azimuth_r1, azimuth_r2)
    /\ ring_pc' = "lerped"
    /\ UNCHANGED <<display_w, display_h, altitude, azimuth_r1, azimuth_r2>>
    /\ UNCHANGED <<locVars, labVars, annVars, pathVars, curveVars, smpVars, extVars>>

NextRing ==
    \/ Construct
    \/ Lerp

SpecRing == InitRing /\ [][NextRing]_vars

----------------------------------------------------------------------------
(* MoonGeometry: construction (geometry.py lines 60-69) and the derived    *)
(* angles local_sidereal_time, hour_angle, altitude and azimuth (lines     *)
(* 71-98).  Angles are whole degrees.  The binary64 values between -1 and  *)
(* 1 are fixed-point numbers with Scale units to 1, and every operation    *)
(* rounds its exact result to the nearest unit, as a binary64 operation    *)
(* rounds to the nearest representable value.                              *)

Scale == 10000

\* round(Scale * sin(d)) for d = 0 .. 90 degrees
SinTable == <<
    0, 175, 349, 523, 698, 872, 1045, 1219, 1392, 1564,
    1736, 1908, 2079, 2250, 2419, 2588, 2756, 2924, 3090, 3256,
    3420, 3584, 3746, 3907, 4067, 4226, 4384, 4540, 4695, 4848,
    5000, 5150, 5299, 5446, 5592, 5736, 5878, 6018, 6157, 6293,
    6428, 6561, 6691, 6820, 6947, 7071, 7193, 7314, 7431, 7547,
    7660, 7771, 7880, 7986, 8090, 8192, 8290, 8387, 8480, 8572,
    8660, 8746, 8829, 8910, 8988, 9063, 9135, 9205, 9272, 9336,
    9397, 9455, 9511, 9563, 9613, 9659, 9703, 9744, 9781, 9816,
    9848, 9877, 9903, 9925, 9945, 9962, 9976, 9986, 9994, 9998,
    10000
>>

\* a / b rounded to the nearest integer, b # 0
RoundDiv(a, b) ==
    LET sg == IF b < 0 THEN 0 - 1 ELSE 1
    IN  (2 * sg * a + sg * b) \div (2 * sg * b)

\* lines 155-157: math.sin(math.radians(n))
RECURSIVE DSin(_)
DSin(n) ==
    LET d == n % FullTurn
    IN  IF d <= 90 THEN SinTable[d + 1]
        ELSE IF d <= 180 THEN SinTable[180 - d + 1]
        ELSE 0 - DSin(d - 180)

\* lines 158-160: math.cos(math.radians(n))
DCos(n) == DSin(n + 90)

\* the product of two fixed-point numbers
Mul(x, y) == RoundDiv(x * y, Scale)

\* math.asin and math.acos are defined on [-1, 1] only
InDomain(x) == (0 - Scale) <= x /\ x <= Scale

\* math.degrees(math.asin(x)): the angle in -90 .. 90 whose sine is nearest
AsinDegrees(x) ==
    LET ax == Abs(x)
        ad == CHOOSE d \in 0..90 :
                /\ d = 0 \/ SinTable[d] + SinTable[d + 1] <= 2 * ax
                /\ d = 90 \/ 2 * ax < SinTable[d + 1] + SinTable[d + 2]
    IN  IF x < 0 THEN 0 - ad ELSE ad

\* math.degrees(math.acos(x)): the angle in 0 .. 180 whose cosine is nearest
AcosDegrees(x) == 90 - AsinDegrees(x)

\* lines 74-76, with gst standing for 100.46 + 0.985647 * days + 15 * hours
LocalSiderealTime(gst, lon) == (gst + lon) % FullTurn

\* lines 80-82
HourAngle(gst, lon, ra) == (LocalSiderealTime(gst, lon) - ra * 15) % FullTurn

\* line 97
SinAlt(dec, lat, ha) ==
    Mul(DSin(dec), DSin(lat)) + Mul(Mul(DCos(dec), DCos(lat)), DCos(ha))

\* line 88: numerator and denominator of cosaz
CosAzNum(dec, alt, lat) == DSin(dec) - Mul(DSin(alt), DSin(lat))
CosAzDen(alt, lat) == Mul(DCos(alt), DCos(lat))

\* line 88.  No binary64 cosine is exactly 0 (math.cos(math.radians(90.0)) is
\* 6.1e-17), so where the denominator is 0 in fixed point the source divides
\* one rounding residue by another: the quotient may be any number, inside
\* or outside of [-1, 1].
ResidueQuotients == {0 - 2 * Scale, 0 - Scale, 0, Scale, 2 * Scale}

CosAz(dec, alt, lat) ==
    IF CosAzDen(alt, lat) = 0
      THEN ResidueQuotients
      ELSE {RoundDiv(CosAzNum(dec, alt, lat) * Scale, CosAzDen(alt, lat))}

\* lines 89-92
AzimuthDegrees(cosaz, ha) ==
    LET azd == AcosDegrees(cosaz)
    IN  IF DSin(ha) > 0 THEN 360 - azd ELSE azd

Latitudes == {0 - 91, 0 - 90, 0 - 82, 0 - 45, 0 - 8, 0, 8, 30, 45, 82, 90, 91}

Longitudes == {0 - 181, 0 - 180, 0, 90, 181}

Declinations == {0 - 90, 0 - 82, 0 - 45, 0 - 8, 0, 8, 30, 45, 82, 90}

RightAscensions == {0, 6, 12, 18}

SiderealParts == {0, 270}

\* the samples whose altitude is a whole number of degrees: the Moon on the
\* meridian, or the Moon or the observer on the equator or at a pole
WholeDegreeAltitude(dec, lat, ha) ==
    \/ ha % 180 = 0
    \/ dec \in {0 - 90, 0, 90}
    \/ lat \in {0 - 90, 0, 90}

InitSample ==
    /\ LocatorIdle
    /\ ExtIdle
    /\ LabelIdle
    /\ AnnotateIdle
    /\ PathIdle
    /\ CurveIdle
    /\ RingIdle
    /\ smp_aware \in BOOLEAN
    /\ smp_gst \in SiderealParts
    /\ smp_lat \in Latitudes
    /\ smp_lon \in Longitudes
    /\ smp_ra \in RightAscensions
    /\ smp_dec \in Declinations
    /\ WholeDegreeAltitude(smp_dec, smp_lat, HourAngle(smp_gst, smp_lon, smp_ra))
    /\ smp_via \in {"init", "for_datetime"}
    /\ smp_pc = "new"
    /\ smp_op = ""
    /\ smp_err = ""
    /\ smp_alt = NoAngle
    /\ smp_az = NoAngle

\* lines 60-69: the generated __init__ stores the fields; for_datetime first
\* calls days_since_j2000(dt), whose subtraction (line 174) raises TypeError
\* for a naive dt
ConstructSample ==
    /\ smp_pc = "new"
    /\ IF smp_via = "for_datetime" /\ ~ smp_aware
         THEN smp_pc' = "raised" /\ smp_err' = "TypeError"
         ELSE smp_pc' = "constructed" /\ smp_err' = ""
    /\ UNCHANGED <<smp_aware, smp_gst, smp_lat, smp_lon, smp_ra, smp_dec, smp_via,
                   smp_op, smp_alt, smp_az>>
    /\ UNCHANGED <<locVars, labVars, annVars, pathVars, curveVars, ringVars, extVars>>

\* lines 94-98: the first access of altitude
AccessAltitude ==
    /\ smp_pc = "constructed"
    /\ smp_op' = "altitude"
    /\ LET sinalt == SinAlt(smp_dec, smp_lat, HourAngle(smp_gst, smp_lon, smp_ra))
       IN  IF ~ smp_aware
             THEN smp_pc' = "raised" /\ smp_err' = "TypeError" /\ smp_alt' = smp_alt
           ELSE IF ~ InDomain(sinalt)
             THEN smp_pc' = "raised" /\ smp_err' = "ValueError" /\ smp_alt' = smp_alt
           ELSE smp_pc' = "has_altitude" /\ smp_err' = "" /\ smp_alt' = AsinDegrees(sinalt)
    /\ UNCHANGED <<smp_aware, smp_gst, smp_lat, smp_lon, smp_ra, smp_dec, smp_via, smp_az>>
    /\ UNCHANGED <<locVars, labVars, annVars, pathVars, curveVars, ringVars, extVars>>

\* lines 84-92: the first access of azimuth, which reads self.altitude
\* (line 87: cached, or computed now)
AccessAzimuth ==
    /\ smp_pc \in {"constructed", "has_altitude"}
    /\ smp_op' = "azimuth"
    /\ LET ha == HourAngle(smp_gst, smp_lon, smp_ra)
           sinalt == SinAlt(smp_dec, smp_lat, ha)
       IN  IF smp_alt = NoAngle /\ ~ smp_aware
             THEN smp_pc' = "raised" /\ smp_err' = "TypeError"
                  /\ UNCHANGED <<smp_alt, smp_az>>
           ELSE IF smp_alt = NoAngle /\ ~ InDomain(sinalt)
             THEN smp_pc' = "raised" /\ smp_err' = "ValueError"
                  /\ UNCHANGED <<smp_alt, smp_az>>
           ELSE LET alt == IF smp_alt = NoAngle THEN AsinDegrees(sinalt) ELSE smp_alt
                IN  /\ smp_alt' = alt
                    /\ \E cosaz \in CosAz(smp_dec, alt, smp_lat) :
                          IF ~ InDomain(cosaz)
                            THEN smp_pc' = "raised" /\ smp_err' = "ValueError"
                                 /\ smp_az' = smp_az
                            ELSE smp_pc' = "has_azimuth" /\ smp_err' = ""
                                 /\ smp_az' = AzimuthDegrees(cosaz, ha)
    /\ UNCHANGED <<smp_aware, smp_gst, smp_lat, smp_lon, smp_ra, smp_dec, smp_via>>
    /\ UNCHANGED <<locVars, labVars, annVars, pathVars, curveVars, ringVars, extVars>>

NextSample ==
    \/ ConstructSample
    \/ AccessAltitude
    \/ AccessAzimuth

SpecSample == InitSample /\ [][NextSample]_vars

----------------------------------------------------------------------------
(* images/ephemeris.py: moon_eph_for_datetime and seek (lines 37-78).  A   *)
(* year has HoursPerYear hours; a timestamp is [year, hour, minute] and    *)
(* the text strftime makes of it is the triple <<year, hour, minute>>.  A  *)
(* data line of the file is known by the time text it starts with.         *)

\* line 56: if dt.minute >= 30
HalfHourMinute == 30

\* line 57: seek_dt += timedelta(hours=1)
PlusOneHour(d) ==
    IF d.hour + 1 = HoursPerYear
      THEN [year |-> d.year + 1, hour |-> 0, minute |-> d.minute]
      ELSE [year |-> d.year, hour |-> d.hour + 1, minute |-> d.minute]

\* line 56, the condition
RoundsUp_mut(d) == d.minute > HalfHourMinute
RoundsUp(d) == d.minute >= HalfHourMinute

\* lines 55-57: seek_dt
SeekDt(d) ==
    LET floor_dt == [d EXCEPT !.minute = 0]
    IN  IF RoundsUp(d) THEN PlusOneHour(floor_dt) ELSE floor_dt

\* line 58: seek_dt.strftime(' %Y-%b-%d %H:%M')
DtStr(d) == <<d.year, d.hour, d.minute>>

\* lines 59-60: the lines that start with dt_str
Matches(rows, d) == {i \in 1..Len(rows) : rows[i] = DtStr(SeekDt(d))}

\* lines 59-68: the first matching line, made into a MoonImageInfo
Seek(rows, d) ==
    LET i == CHOOSE m \in Matches(rows, d) : \A o \in Matches(rows, d) : m <= o
    IN  [time |-> DtStr(SeekDt(d)), line |-> i]

\* the hourly data lines a file of year y may hold, in the order of time:
\* any of the hours of y and the first hour of the year after
RECURSIVE Ascending(_)
Ascending(S) ==
    IF S = {} THEN <<>>
    ELSE LET least == CHOOSE x \in S : \A o \in S : x <= o
         IN  <<least>> \o Ascending(S \ {least})

LineOfHour(y, k) == IF k = HoursPerYear THEN <<y + 1, 0, 0>> ELSE <<y, k, 0>>

FilesOfYear(y) ==
    { [exists |-> FALSE, rows |-> <<>>] } \cup
    { [exists |-> TRUE,
       rows |-> [i \in 1..Cardinality(S) |-> LineOfHour(y, Ascending(S)[i])]] :
         S \in SUBSET (0..HoursPerYear) }

EphYears == {0, 1}
EphMinutes == {0, 1, 29, 30, 31, 59}

InitEphemeris ==
    /\ NotEphIdle
    /\ eph_dt \in [year : EphYears, hour : 0..(HoursPerYear - 1), minute : EphMinutes]
    /\ eph_file \in FilesOfYear(eph_dt.year)
    /\ eph_pc = "start"
    /\ eph_row = <<>>
    /\ eph_err = ""

\* lines 72-78 and 37-69: the file of dt's year is opened and searched
MoonEphForDatetime ==
    /\ eph_pc = "start"
    /\ IF ~ eph_file.exists
         THEN eph_pc' = "raised" /\ eph_err' = "ValueError" /\ eph_row' = eph_row
       ELSE IF Matches(eph_file.rows, eph_dt) = {}
         THEN eph_pc' = "raised" /\ eph_err' = "ValueError" /\ eph_row' = eph_row
       ELSE eph_pc' = "returned" /\ eph_err' = "" /\ eph_row' = Seek(eph_file.rows, eph_dt)
    /\ UNCHANGED <<eph_dt, eph_file>>
    /\ UNCHANGED notEphVars

NextEphemeris == MoonEphForDatetime

SpecEphemeris == InitEphemeris /\ [][NextEphemeris]_vars

----------------------------------------------------------------------------
(* _fetch_with_retries (main.py lines 45-58, images/finder.py lines 18-31) *)
(* used as the context manager of a with statement.  One step per urlopen  *)
(* call, together with the code up to the next call, and one step for the  *)
(* body of the with statement.  The bodies of the callers (json.load(r),   *)
(* f.write(r.read())) read the response; they do not raise URLError.       *)

\* main.py line 31 imports time; images/finder.py (lines 1-10) does not, so
\* time.sleep (finder.py line 31) raises NameError there
TimeImported(impl) == impl = "main"

\* the delays of the callers' lists (main.py lines 63 and 93)
Delays == {1, 3, 15}

DelayLists == UNION {[1..n -> Delays] : n \in 0..MaxDelays}

InitRetry ==
    /\ NotRetryIdle
    /\ rt_impl \in {"main", "finder"}
    /\ rt_given \in DelayLists
    /\ rt_retries = rt_given
    /\ rt_outcomes = <<>>
    /\ rt_slept = <<>>
    /\ rt_pc = "try"
    /\ rt_err = ""

\* lines 49-52: urlopen returns a response, which is yielded to the body
UrlopenOk ==
    /\ rt_pc = "try"
    /\ rt_outcomes' = Append(rt_outcomes, "ok")
    /\ rt_pc' = "body"
    /\ UNCHANGED <<rt_impl, rt_given, rt_retries, rt_slept, rt_err>>
    /\ UNCHANGED notRetryVars

\* lines 53-58: urlopen raises URLError (or its subclass HTTPError)
UrlopenURLError ==
    /\ rt_pc = "try"
    /\ rt_outcomes' = Append(rt_outcomes, "URLError")
    /\ IF rt_retries = <<>>
         THEN /\ rt_pc' = "raised"
              /\ rt_err' = "URLError"
              /\ UNCHANGED <<rt_retries, rt_slept>>
         ELSE /\ rt_retries' = Tail(rt_retries)
              /\ IF TimeImported(rt_impl)
                   THEN /\ rt_slept' = Append(rt_slept, Head(rt_retries))
                        /\ rt_pc' = "try"
                        /\ rt_err' = rt_err
                   ELSE /\ rt_slept' = rt_slept
                        /\ rt_pc' = "raised"
                        /\ rt_err' = "NameError"
    /\ UNCHANGED <<rt_impl, rt_given>>
    /\ UNCHANGED notRetryVars

\* line 50: urlopen raises something that is not a URLError
UrlopenOtherError ==
    /\ rt_pc = "try"
    /\ rt_outcomes' = Append(rt_outcomes, "OSError")
    /\ rt_pc' = "raised"
    /\ rt_err' = "OSError"
    /\ UNCHANGED <<rt_impl, rt_given, rt_retries, rt_slept>>
    /\ UNCHANGED notRetryVars

\* line 51 resumes after the body has ended, line 52: break
BodyEnds ==
    /\ rt_pc = "body"
    /\ rt_pc' = "done"
    /\ UNCHANGED <<rt_impl, rt_given, rt_retries, rt_outcomes, rt_slept, rt_err>>
    /\ UNCHANGED notRetryVars

\* the body raises; the exception passes through line 51 and is not caught
BodyRaises ==
    /\ rt_pc = "body"
    /\ rt_pc' = "raised"
    /\ rt_err' = "OSError"
    /\ UNCHANGED <<rt_impl, rt_given, rt_retries, rt_outcomes, rt_slept>>
    /\ UNCHANGED notRetryVars

NextRetry ==
    \/ UrlopenOk
    \/ UrlopenURLError
    \/ UrlopenOtherError
    \/ BodyEnds
    \/ BodyRaises

SpecRetry == InitRetry /\ [][NextRetry]_vars

\* the with statement runs on: urlopen returns or raises, the body ends
SpecRetryFair == SpecRetry /\ WF_vars(NextRetry)

----------------------------------------------------------------------------
(* Annotate._draw_indicator (luna/annotate.py lines 104-154), on an        *)
(* Annotate built by __init__.  The azimuth is counted in hundredths of a  *)
(* degree, the altitude in whole degrees; the time text is kept by the     *)
(* radius it is anchored at (90 times its value), its rotation and its     *)
(* shift along the baseline.                                               *)

\* line 112: stroke_width = 3
StrokeWidth == 3

\* f'{x:0.1f}': the nearest tenth of a degree, in tenths
Format1(x100) == (x100 + 5) \div 10

\* line 122: if self.mg.altitude > 0
DotDrawn_mut(alt) == alt >= 0
DotDrawn(alt) == alt > 0

\* lines 113-128: indicator_draw_commands, without the colours
IndicatorDrawCommands(az100, alt, r1, r2) ==
    << <<"stroke-width", StrokeWidth>>,
       <<"rotate", Format1(az100)>>,
       <<"line", r1, r2>> >>
    \o IF DotDrawn(alt)
         THEN << <<"stroke-width", 0>>,
                 <<"translate", LerpAltitude90(alt, r1, r2)>>,
                 <<"circle", IndicatorR>> >>
         ELSE <<>>

\* lines 123 and 130: alt_lerp, times 90
AltLerp90(alt, r1, r2) ==
    IF DotDrawn(alt) THEN LerpAltitude90(alt, r1, r2) ELSE LerpAltitude90(45, r1, r2)

\* lines 132-147: where the hours and minutes are written
IndicatorText(az100, alt, r1, r2) ==
    [ radius90 |-> AltLerp90(alt, r1, r2),
      rotate100 |-> IF 9000 <= az100 /\ az100 <= 27000 THEN az100 + 18000 ELSE az100,
      shift |-> (IF alt > 0 THEN IndicatorR ELSE StrokeWidth) + 1 ]

IndicatorAltitudes == {0 - 90, 0 - 1, 0, 1, 45, 90}

IndicatorAzimuths == {0, 4, 5, 8996, 9000, 18000, 27000, 27004, 35995, 35999}

InitIndicator ==
    /\ NotIndIdle
    /\ display_w \in DisplaySizes
    /\ display_h \in DisplaySizes
    /\ altitude \in IndicatorAltitudes
    /\ azimuth_r1 = None
    /\ azimuth_r2 = None
    /\ lerp90 = None
    /\ ring_pc = "new"
    /\ ind_az100 \in IndicatorAzimuths
    /\ ind_cmds = <<>>
    /\ ind_text = <<>>

\* lines 104-154
DrawIndicator ==
    /\ ring_pc = "constructed"
    /\ ind_cmds' = IndicatorDrawCommands(ind_az100, altitude, azimuth_r1, azimuth_r2)
    /\ ind_text' = IndicatorText(ind_az100, altitude, azimuth_r1, azimuth_r2)
    /\ ring_pc' = "drawn"
    /\ UNCHANGED <<display_w, display_h, altitude, azimuth_r1, azimuth_r2, lerp90, ind_az100>>
    /\ UNCHANGED notIndVars

NextIndicator ==
    \/ Construct
    \/ DrawIndicator

SpecIndicator == InitIndicator /\ [][NextIndicator]_vars

----------------------------------------------------------------------------
(* Annotate._draw_cardinal_directions (luna/annotate.py lines 178-192).    *)
(* cur_az is self.mg.azimuth, pair_azs the azimuths of                      *)
(* self.mg.nearest_rise_and_set (<<>> = the property raises).               *)

\* lines 184-191: the four labels in the order of the if statements, each
\* with the azimuth its test is called with
Cardinals_mut == << <<"N", 0>>, <<"E", 270>>, <<"S", 180>>, <<"W", 90>> >>
Cardinals == << <<"N", 0>>, <<"E", 90>>, <<"S", 180>>, <<"W", 270>> >>

\* lines 184-191: draw_commands after the first n if statements; every
\* test is called with the azimuth alone: default geometries, default delta
RECURSIVE CardinalCommands(_, _, _)
CardinalCommands(n, cur, pair) ==
    IF n = 0 THEN <<>>
    ELSE CardinalCommands(n - 1, cur, pair) \o
         (IF CanDrawTextAtAzimuth(Cardinals[n][2], DefaultDelta,
                                  OccupiedAzimuths(<<>>, cur, pair))
            THEN <<Cardinals[n][1]>> ELSE <<>>)

\* azimuths of the current position, the rise and the set around the labels
CardinalAzs == {0, 3, 4, 5, 86, 87, 94, 176, 180, 184, 267, 273, 274, 356, 357, 360}

InitCardinal ==
    /\ NotLblIdle
    /\ PathIdle
    /\ cur_az \in CardinalAzs
    /\ pair_azs \in {<<>>} \cup {<<r, s>> : r \in CardinalAzs, s \in CardinalAzs}
    /\ mgs = <<>>
    /\ card_labels = <<>>
    /\ card_pc = "start"
    /\ time_labels = <<>>

\* lines 178-192; the first test raises when nearest_rise_and_set does
DrawCardinalDirections ==
    /\ card_pc = "start"
    /\ IF pair_azs = <<>>
         THEN card_pc' = "raised" /\ card_labels' = card_labels
         ELSE /\ card_pc' = "returned"
              /\ card_labels' = CardinalCommands(Len(Cardinals), cur_az, pair_azs)
    /\ UNCHANGED <<annVars, pathVars, time_labels, notLblVars>>

NextCardinal == DrawCardinalDirections

SpecCardinal == InitCardinal /\ [][NextCardinal]_vars

----------------------------------------------------------------------------
(* The end of Annotate._draw_moon_path (luna/annotate.py lines 226-269):   *)
(* the path command and the rise and set time labels.  An entry of         *)
(* time_labels is [text, angle]: what is drawn and the angle of its text.  *)

\* lines 249, 260: the geometries the two tests are called with: self.mg
TimeLabelGeometries_mut(cur, pair) == <<>>
TimeLabelGeometries(cur, pair) == <<cur>>

\* lines 251-256, 261-266: text in the top half (E to S to W) is flipped
TextRotate(a) == IF 90 <= a /\ a <= 270 THEN 180 ELSE 0

\* lines 249-257, 260-267: the label of one end of the path, if it is drawn
TimeLabel(text, a, cur, pair) ==
    IF CanDrawTextAtAzimuth(a, TextWidthDelta,
                            OccupiedAzimuths(TimeLabelGeometries(cur, pair), cur, pair))
      THEN << [text |-> text, angle |-> a + TextRotate(a)] >>
      ELSE <<>>

\* azimuths of the current position, the rise and the set
TimeAzs == {0, 5, 90, 97, 98, 352, 353, 357, 360}

InitMoonPath ==
    /\ NotLblIdle
    /\ rise_mg \in 0..MaxRise
    /\ set_mg \in rise_mg..(rise_mg + MaxSpan)
    /\ step = HalfHourStep
    /\ next_dt = 0
    /\ times = <<>>
    /\ path_pc = "start"
    /\ path_err = ""
    /\ cur_az \in TimeAzs
    /\ pair_azs \in {<<r, s>> : r \in TimeAzs, s \in TimeAzs}
    /\ mgs = <<>>
    /\ card_labels = <<>>
    /\ card_pc = "idle"
    /\ time_labels = <<>>

\* lines 226-269: the path command, then the rise label, then the set label
DrawTimeLabels ==
    /\ path_pc = "done"
    /\ time_labels' = << [text |-> "path", angle |-> 0] >>
                         \o TimeLabel("rise", pair_azs[1], cur_az, pair_azs)
                         \o TimeLabel("set", pair_azs[2], cur_az, pair_azs)
    /\ path_pc' = "returned"
    /\ UNCHANGED <<rise_mg, set_mg, step, next_dt, times, path_err>>
    /\ UNCHANGED <<annVars, card_labels, card_pc, notLblVars>>

NextMoonPath ==
    \/ PathStart
    \/ SampleNext
    \/ SampleSet
    \/ FitCurve
    \/ DrawTimeLabels

SpecMoonPath == InitMoonPath /\ [][NextMoonPath]_vars

----------------------------------------------------------------------------
(* main.py, the script body (lines 153-191) and the functions it calls.    *)
(* An image url is a number of Urls; a file of the cache directory is      *)
(* described by the url its content comes from.  A run is followed by the  *)
(* next run of the script on the same cache directory.                     *)

\* the image urls the service answers with
Urls == {1, 2}

\* lines 84-89: the cached url; cached_dam answers {} when there is no file
CachedDamImage(cached) == cached

\* line 172: new_dam_image != last_dam_image
IsNewImage_mut(new, last) == last = None
IsNewImage(new, last) == new # last

\* line 190: if success
WritesCache_mut(success) == TRUE
WritesCache(success) == success

\* the call of this step is on record
Logged(call, outcome) == run_log' = Append(run_log, <<call, outcome>>)

InitMain ==
    /\ NotRunIdle
    /\ run_pc = "fetch"
    /\ run_no = 0
    /\ run_argv \in BOOLEAN
    /\ run_dam = NoFile
    /\ run_last = NoFile
    /\ run_success = FALSE
    /\ run_log = <<>>
    /\ run_cache0 = None
    /\ disk_cache = None
    /\ disk_raw = NoFile
    /\ disk_proc = NoFile
    /\ disk_final = [kind |-> "none", url |-> NoFile]

\* line 164 (and 60-64): the metadata arrives or the call raises
FetchDialamoon ==
    /\ run_pc = "fetch"
    /\ \/ \E u \in Urls :
            /\ run_dam' = u
            /\ run_pc' = "geometry"
            /\ Logged("fetch_dialamoon", "ok")
       \/ /\ run_pc' = "except"
          /\ Logged("fetch_dialamoon", "raised")
          /\ UNCHANGED run_dam
    /\ UNCHANGED <<run_no, run_argv, run_last, run_success, run_cache0>>
    /\ UNCHANGED <<disk_cache, disk_raw, disk_proc, disk_final, notRunVars>>

\* lines 166-167: MoonGeometry(...) and Annotate(...); a key missing from
\* the metadata raises
Geometry ==
    /\ run_pc = "geometry"
    /\ \/ run_pc' = "compare" /\ Logged("geometry", "ok")
       \/ run_pc' = "except" /\ Logged("geometry", "raised")
    /\ UNCHANGED <<run_no, run_argv, run_dam, run_last, run_success, run_cache0>>
    /\ UNCHANGED <<disk_cache, disk_raw, disk_proc, disk_final, notRunVars>>

\* lines 169-172
Compare ==
    /\ run_pc = "compare"
    /\ run_last' = CachedDamImage(disk_cache)
    /\ run_pc' = IF IsNewImage(run_dam, CachedDamImage(disk_cache))
                   THEN "download" ELSE "annotate"
    /\ UNCHANGED <<run_no, run_argv, run_dam, run_success, run_log, run_cache0>>
    /\ UNCHANGED <<disk_cache, disk_raw, disk_proc, disk_final, notRunVars>>

\* lines 178, 91-96: the fetch raises and the file is not opened, or the
\* file is opened (and so emptied) and read raises, or the file is written
DownloadImage ==
    /\ run_pc = "download"
    /\ \/ /\ disk_raw' = run_dam
          /\ run_pc' = "process"
          /\ Logged("download_image", "ok")
       \/ /\ disk_raw' \in {disk_raw, Truncated}
          /\ run_pc' = "except"
          /\ Logged("download_image", "raised")
    /\ UNCHANGED <<run_no, run_argv, run_dam, run_last, run_success, run_cache0>>
    /\ UNCHANGED <<disk_cache, disk_proc, disk_final, notRunVars>>

\* lines 179, 98-122: convert writes the processed image, or exits with an
\* error (check=True raises) and writes nothing
ProcessDamImage ==
    /\ run_pc = "process"
    /\ \/ /\ disk_proc' = disk_raw
          /\ run_pc' = "annotate"
          /\ Logged("process_dam_image", "ok")
       \/ /\ run_pc' = "except"
          /\ Logged("process_dam_image", "raised")
          /\ UNCHANGED disk_proc
    /\ UNCHANGED <<run_no, run_argv, run_dam, run_last, run_success, run_cache0>>
    /\ UNCHANGED <<disk_cache, disk_raw, disk_final, notRunVars>>

\* lines 181-182, 124-143: draw_annotations or convert may raise
AnnotateDamImage ==
    /\ run_pc = "annotate"
    /\ \/ /\ disk_proc # NoFile
          /\ disk_final' = [kind |-> "annotated", url |-> disk_proc]
          /\ run_success' = TRUE
          /\ run_pc' = "display"
          /\ Logged("annotate_dam_image", "ok")
       \/ /\ run_pc' = "except"
          /\ Logged("annotate_dam_image", "raised")
          /\ UNCHANGED <<disk_final, run_success>>
    /\ UNCHANGED <<run_no, run_argv, run_dam, run_last, run_cache0>>
    /\ UNCHANGED <<disk_cache, disk_raw, disk_proc, notRunVars>>

\* lines 183-185, luna/debug.py lines 25-38: convert writes the debug image,
\* or exits with an error and the exception leaves the script
ProduceDebugImage ==
    /\ run_pc = "except"
    /\ \/ /\ disk_final' = [kind |-> "debug", url |-> NoFile]
          /\ run_pc' = "display"
          /\ Logged("produce_debug_image", "ok")
       \/ /\ run_pc' = "crashed"
          /\ Logged("produce_debug_image", "raised")
          /\ UNCHANGED disk_final
    /\ UNCHANGED <<run_no, run_argv, run_dam, run_last, run_success, run_cache0>>
    /\ UNCHANGED <<disk_cache, disk_raw, disk_proc, notRunVars>>

\* lines 187-188, 145-151: the display command fails or times out
DisplayDamImage ==
    /\ run_pc = "display"
    /\ IF run_argv
         THEN \/ run_pc' = "cache" /\ Logged("display_dam_image", "ok")
              \/ run_pc' = "crashed" /\ Logged("display_dam_image", "raised")
         ELSE run_pc' = "cache" /\ UNCHANGED run_log
    /\ UNCHANGED <<run_no, run_argv, run_dam, run_last, run_success, run_cache0>>
    /\ UNCHANGED <<disk_cache, disk_raw, disk_proc, disk_final, notRunVars>>

\* lines 190-191, 77-82
CacheDam ==
    /\ run_pc = "cache"
    /\ IF WritesCache(run_success)
         THEN disk_cache' = run_dam /\ Logged("cache_dam", "ok")
         ELSE UNCHANGED <<disk_cache, run_log>>
    /\ run_pc' = "ended"
    /\ UNCHANGED <<run_no, run_argv, run_dam, run_last, run_success, run_cache0>>
    /\ UNCHANGED <<disk_raw, disk_proc, disk_final, notRunVars>>

\* the script is started again (lines 153-162); the files stay
NextRun ==
    /\ run_pc \in {"ended", "crashed"}
    /\ run_no < MaxRuns
    /\ run_no' = run_no + 1
    /\ run_argv' \in BOOLEAN
    /\ run_dam' = NoFile
    /\ run_last' = NoFile
    /\ run_success' = FALSE
    /\ run_log' = <<>>
    /\ run_cache0' = disk_cache
    /\ run_pc' = "fetch"
    /\ UNCHANGED <<disk_cache, disk_raw, disk_proc, disk_final, notRunVars>>

NextMain ==
    \/ FetchDialamoon
    \/ Geometry
    \/ Compare
    \/ DownloadImage
    \/ ProcessDamImage
    \/ AnnotateDamImage
    \/ ProduceDebugImage
    \/ DisplayDamImage
    \/ CacheDam
    \/ NextRun

SpecMain == InitMain /\ [][NextMain]_vars

----------------------------------------------------------------------------
(* MoonGeometry.local_sidereal_time as a function of dt (geometry.py lines *)
(* 71-76, 168-174), for two samples that differ in the UTC offset of dt    *)
(* only.  A datetime is [wall, off] in ticks of 12 minutes, wall counted   *)
(* from 2000-01-01 00:00 on the local clock; angles of the sidereal time   *)
(* are in hundredths of a degree.                                          *)

\* ticks of 12 minutes in an hour and in a day
TicksPerHour == 5
TicksPerDay == 120

\* dt.hour and dt.minute: fields of the local clock
HourOf(d) == (d.wall % TicksPerDay) \div TicksPerHour
MinuteOf(d) == 12 * (d.wall % TicksPerHour)

\* lines 168-174: (dt - J2000) / timedelta(days=1), in ticks; J2000 is
\* 2000-01-01 12:00 UTC (line 11) and the subtraction compares instants
TicksSinceJ2000(d) == Instant(d) - 12 * TicksPerHour

\* line 74: 15 * time_hours, in hundredths of a degree
HourTerm(d) == 1500 * HourOf(d) + 25 * MinuteOf(d)

\* lines 75-76, in hundredths of a degree
LocalSiderealTime100(d, lon) ==
    (10046 + RoundDiv(985647 * TicksSinceJ2000(d), 10000 * TicksPerDay)
       + 100 * lon + HourTerm(d)) % (100 * FullTurn)

\* lines 71-98: what a sample derives; asin and acos raise ValueError
\* outside of their domain
Derived(d, lat, lon, ra, dec) ==
    LET lst == LocalSiderealTime100(d, lon)
        ha == (RoundDiv(lst, 100) - ra * 15) % FullTurn
        sinalt == SinAlt(dec, lat, ha)
    IN  IF ~ InDomain(sinalt)
          THEN {[lst |-> lst, ha |-> ha, alt |-> RaisesValueError, az |-> RaisesValueError]}
          ELSE {[lst |-> lst, ha |-> ha, alt |-> AsinDegrees(sinalt),
                 az |-> IF InDomain(c) THEN AzimuthDegrees(c, ha) ELSE RaisesValueError] :
                  c \in CosAz(dec, AsinDegrees(sinalt), lat)}

\* UTC offsets: -04:00, UTC, +01:00
ZoneOffsets == {0 - 20, 0, 5}

\* the datetimes of two days
ZoneDatetimes == [wall : 0..(2 * TicksPerDay - 1), off : ZoneOffsets]

InitZone ==
    /\ NotZnIdle
    /\ zn_a \in ZoneDatetimes
    /\ zn_b \in {d \in ZoneDatetimes : Instant(d) = Instant(zn_a)}
    /\ zn_lat \in {41}
    /\ zn_lon \in {0 - 74, 0}
    /\ zn_ra \in {10}
    /\ zn_dec \in {0, 20}
    /\ zn_out_a = <<>>
    /\ zn_out_b = <<>>

\* the properties of the first sample are accessed
AccessFirst ==
    /\ zn_out_a = <<>>
    /\ zn_out_a' \in Derived(zn_a, zn_lat, zn_lon, zn_ra, zn_dec)
    /\ UNCHANGED <<zn_a, zn_b, zn_lat, zn_lon, zn_ra, zn_dec, zn_out_b, notZnVars>>

\* the properties of the second sample are accessed
AccessSecond ==
    /\ zn_out_b = <<>>
    /\ zn_out_b' \in Derived(zn_b, zn_lat, zn_lon, zn_ra, zn_dec)
    /\ UNCHANGED <<zn_a, zn_b, zn_lat, zn_lon, zn_ra, zn_dec, zn_out_a, notZnVars>>

NextZone ==
    \/ AccessFirst
    \/ AccessSecond

SpecZone == InitZone /\ [][NextZone]_vars

----------------------------------------------------------------------------
(* Properties of nearest_rise_and_set *)

\* the instant t of the sample and its UTC calendar date
Now == Instant(mg.dt)
Today == DateOf(AsTimezoneUTC(mg.dt))

IsTime(x) == x >= 0
Returned == pc = "returned"
RiseOf == Instant(result[1].dt)
SetOf == Instant(result[2].dt)
RiseFact(d) == eph[<<"rise", d>>]
SetFact(d) == eph[<<"set", d>>]
NoEvent(q) == eph[q] \in {None, RaisesValueError}

\* C1: in every returned pair the rise is strictly earlier than the set,
\* whatever the provider answered for the dates asked.
C1_RiseStrictlyBeforeSet ==
    Returned => RiseOf < SetOf

\* C2: when the moon is up (altitude > 0) the displayed rise is the rise of
\* t's UTC date if that exists and is not after t, otherwise the rise of the
\* previous date; it is at or before t and no known rise lies between it and t.
C2_UpShowsMostRecentRise ==
    (Returned /\ Altitude(mg) > 0) =>
        /\ RiseOf = IF IsTime(RiseFact(Today)) /\ RiseFact(Today) <= Now
                      THEN RiseFact(Today)
                      ELSE RiseFact(Today - 1)
        /\ RiseOf <= Now
        /\ \A d \in Dates :
             (IsTime(RiseFact(d)) /\ RiseFact(d) <= Now) => RiseFact(d) <= RiseOf

\* C2 witness: moon up, the date's rise exists but is after t, and the pair
\* returned shows the rise of the previous date.
C2_Witness ==
    /\ Returned
    /\ Altitude(mg) > 0
    /\ IsTime(RiseFact(Today)) /\ RiseFact(Today) > Now
    /\ DateOf(result[1].dt) = Today - 1

\* C3: when the moon is down (altitude <= 0) the displayed rise is the rise
\* of t's UTC date if that exists and is not before t, otherwise the rise of
\* the next date; it is at or after t and no known rise lies between t and it.
C3_DownShowsNextRise ==
    (Returned /\ Altitude(mg) <= 0) =>
        /\ RiseOf = IF IsTime(RiseFact(Today)) /\ RiseFact(Today) >= Now
                      THEN RiseFact(Today)
                      ELSE RiseFact(Today + 1)
        /\ RiseOf >= Now
        /\ \A d \in Dates :
             (IsTime(RiseFact(d)) /\ RiseFact(d) >= Now) => RiseFact(d) >= RiseOf

\* C3 witness: moon down, the date's rise exists but is before t, and the
\* pair returned shows the rise of the next date.
C3_Witness ==
    /\ Returned
    /\ Altitude(mg) <= 0
    /\ IsTime(RiseFact(Today)) /\ RiseFact(Today) < Now
    /\ DateOf(result[1].dt) = Today + 1

\* C4: the displayed set is the provider's set for the date of the chosen
\* rise, unless that is missing or earlier than the rise; then it is the
\* provider's set for the rise's date plus one day.  The date of t plays no part.
C4_SetRelativeToRise ==
    Returned =>
        LET rd == DateOf(result[1].dt)
        IN SetOf = IF IsTime(SetFact(rd)) /\ SetFact(rd) >= RiseOf
                     THEN SetFact(rd)
                     ELSE SetFact(rd + 1)

\* C4 witness: the chosen rise is not on t's date, the set of the rise's
\* date is earlier than the rise, and the set shown is on the following date.
C4_Witness ==
    /\ Returned
    /\ DateOf(result[1].dt) # Today
    /\ IsTime(SetFact(DateOf(result[1].dt)))
    /\ SetFact(DateOf(result[1].dt)) < RiseOf
    /\ DateOf(result[2].dt) = DateOf(result[1].dt) + 1

\* C5: whenever the moon is up at t (altitude > 0) the returned pair
\* encloses t: rise <= t <= set.
C5_UpPairEnclosesNow ==
    (Returned /\ Altitude(mg) > 0) => (RiseOf <= Now /\ Now <= SetOf)

\* C6: moon down at t with both the rise and the set of t's date before t:
\* what is returned is the next cycle (the rise of the following date and the
\* set looked up from that rise, both later than t), never the date's own
\* cycle; the evaluation fails only when the provider has no event to give.
C6_OverlapShowsNextCycle ==
    ( /\ pc \in Terminal
      /\ Altitude(mg) <= 0
      /\ IsTime(RiseFact(Today)) /\ RiseFact(Today) < Now
      /\ IsTime(SetFact(Today)) /\ SetFact(Today) < Now )
    =>
      /\ Returned =>
           /\ DateOf(result[1].dt) = Today + 1
           /\ RiseOf = RiseFact(Today + 1)
           /\ RiseOf > Now
           /\ SetOf > Now
           /\ SetOf \in {SetFact(Today + 1), SetFact(Today + 2)}
           /\ RiseOf # RiseFact(Today)
           /\ SetOf # SetFact(Today)
      /\ pc = "raised" =>
           \/ NoEvent(<<"rise", Today + 1>>)
           \/ NoEvent(<<"set", Today + 2>>)

\* C6 witness: the overlap case has been evaluated and a pair was returned.
C6_Witness ==
    /\ Returned
    /\ Altitude(mg) <= 0
    /\ IsTime(RiseFact(Today)) /\ RiseFact(Today) < Now
    /\ IsTime(SetFact(Today)) /\ SetFact(Today) < Now
    /\ RiseOf > Now

\* the running evaluation asked for a second rise / a second set
RiseRetried == Len(asked) >= 2 /\ asked[2][1] = "rise"
SetRetried ==
    /\ Len(asked) >= 2
    /\ asked[Len(asked)][1] = "set"
    /\ asked[Len(asked) - 1][1] = "set"

\* C7: when the provider has no rise, or no set, on the adjacent-day retry
\* (None or ValueError) the evaluation returns nothing and ends with an
\* error; a returned pair never holds a missing rise or set.
C7_UnavailableFails ==
    /\ ( \/ (RiseRetried /\ NoEvent(asked[2]))
         \/ (SetRetried /\ NoEvent(asked[Len(asked)])) )
       => ( /\ pc = "raised"
            /\ err \in {"ValueError", "AssertionError"}
            /\ result = <<>>
            /\ cache.nearest_rise_and_set = <<>> )
    /\ Returned =>
         /\ Len(result) = 2
         /\ IsTime(result[1].dt.wall)
         /\ IsTime(result[2].dt.wall)
         /\ err = ""

\* C7 witness: the set retry found no set and the assertion ended the call.
C7_Witness ==
    /\ pc = "raised"
    /\ err = "AssertionError"
    /\ SetRetried
    /\ eph[asked[Len(asked)]] = None

----------------------------------------------------------------------------
(* Properties of _can_draw_text_at_azimuth *)

CircDist(a, b) == Min(Abs(a - b), FullTurn - Abs(a - b))

----------------------------------------------------------------------------
(* Properties of Annotate._can_draw_text_at_azimuth *)

Answered == can_draw \in {"True", "False"}

\* C11: without explicit geometries the azimuths checked are exactly the
\* current, rise and set azimuths, so a label at the current azimuth is not
\* drawable; with explicit geometries only theirs are checked, and the
\* label is drawable exactly when each of them is at least delta away.
C11_DefaultOccupiedSet ==
    Answered =>
        /\ mgs = <<>> =>
             /\ check_azs = <<cur_az, pair_azs[1], pair_azs[2]>>
             /\ az = cur_az => can_draw = "False"
        /\ mgs # <<>> =>
             /\ check_azs = mgs
             /\ can_draw = "True"
                  <=> \A i \in 1..Len(mgs) : CircDist(az, mgs[i]) >= delta

\* C11 witness: a label at the current azimuth, tested against the rise and
\* set only, is drawable.
C11_Witness ==
    /\ can_draw = "True"
    /\ az = cur_az
    /\ Len(mgs) = 2
    /\ mgs = pair_azs

----------------------------------------------------------------------------
(* Properties of Annotate._draw_moon_path *)

Sampled == path_pc \in {"sampled", "done", "raised"}

\* C12: for rise < set the sampled times start with the rise, are strictly
\* increasing, all gaps are one step except the last, which is more than 0
\* and at most one step, and the set ends the list and occurs exactly once;
\* the sampling loop terminates.
C12_SampledTimes ==
    /\ []( (Sampled /\ rise_mg < set_mg) =>
             /\ Len(times) >= 2
             /\ times[1] = rise_mg
             /\ times[Len(times)] = set_mg
             /\ \A i \in 1..(Len(times) - 1) : times[i] < times[i + 1]
             /\ \A i \in 1..(Len(times) - 2) : times[i + 1] - times[i] = step
             /\ times[Len(times)] - times[Len(times) - 1] <= step
             /\ Cardinality({i \in 1..Len(times) : times[i] = set_mg}) = 1 )
    /\ <>Sampled

\* C12 witness: sampled, with the set an exact multiple of the step after
\* the rise and more than two samples.
C12_Witness ==
    /\ Sampled
    /\ rise_mg < set_mg
    /\ (set_mg - rise_mg) % step = 0
    /\ Len(times) > 2

\* C20: _draw_moon_path completes without error for every pair the locator
\* returns, whatever the length of the interval.
C20_PathCompletes ==
    path_pc # "raised"

----------------------------------------------------------------------------
(* Properties of _interpolate_control_points *)

\* element i of a list, counted from 0 as the source does
At0(seq, i) == seq[i + 1]

\* the number of knots handed in
NKnots == Len(points)

\* C13: for every accepted list of N knots the returned list has exactly
\* 3N - 2 points.
C13_OutputLength ==
    curve_pc = "returned" => Len(interp_points) = 3 * NKnots - 2

\* C13 witness: a list of more than three knots has been fitted.
C13_Witness ==
    /\ curve_pc = "returned"
    /\ NKnots > 3
    /\ Len(interp_points) = 3 * NKnots - 2

\* C14: in the returned list index 3i holds knot i, the first knot is also
\* its own trailing control (index 1) and the last knot its own leading
\* control (index 3N - 4); after the caller has removed the first element
\* the rest is N - 1 groups of three ending in knots 1 .. N - 1.
C14_PointRoles ==
    /\ curve_pc = "returned" =>
         /\ Len(interp_points) > 3 * (NKnots - 1)
         /\ \A i \in 0..(NKnots - 1) : At0(interp_points, 3 * i) = At0(points, i)
         /\ At0(interp_points, 1) = At0(points, 0)
         /\ At0(interp_points, 3 * NKnots - 4) = At0(points, NKnots - 1)
    /\ curve_pc = "popped" =>
         /\ first_point = At0(points, 0)
         /\ Len(interp_points) = 3 * (NKnots - 1)
         /\ \A g \in 1..(NKnots - 1) : At0(interp_points, 3 * g - 1) = At0(points, g)

\* C14 witness: the first point has been popped off a fitted list of more
\* than three distinct-looking knots.
C14_Witness ==
    /\ curve_pc = "popped"
    /\ NKnots > 3
    /\ At0(points, 0) # At0(points, 1)
    /\ At0(points, 1) # At0(points, 2)

\* C15: for every interior knot i, with d = knot[i+1] - knot[i-1], the
\* leading control (index 3i - 1) is knot[i] - k d and the trailing control
\* (index 3i + 1) is knot[i] + k d, so the two are symmetric about the
\* knot; the list handed in is not modified.
C15_ControlPoints ==
    /\ curve_pc = "returned" =>
         \A i \in 1..(NKnots - 2) : \A c \in 1..2 :
            LET d == At0(points, i + 1)[c] - At0(points, i - 1)[c]
                knot == At0(points, i)[c]
                lead == At0(interp_points, 3 * i - 1)[c]
                trail == At0(interp_points, 3 * i + 1)[c]
            IN  /\ KDen * lead = KDen * knot - KNum * d
                /\ KDen * trail = KDen * knot + KNum * d
                /\ lead + trail = 2 * knot
    /\ curve_pc \in {"returned", "popped", "raised"} => points = points_in

\* C15 witness: a fitted interior knot whose neighbours differ from each
\* other and from the knot in both coordinates.
C15_Witness ==
    /\ curve_pc = "returned"
    /\ \E i \in 1..(NKnots - 2) : \A c \in 1..2 :
          /\ At0(points, i + 1)[c] # At0(points, i - 1)[c]
          /\ At0(points, i + 1)[c] # At0(points, i)[c]

----------------------------------------------------------------------------
(* Properties of the annotation ring *)

\* C16: for every display size the outer radius is min(width, height) // 2
\* and the inner radius is the outer radius minus 70 (702 and 632 for
\* 1872x1404); _lerp_altitude maps 0 to inner + indicator radius, 90 to
\* outer - indicator radius and 45 to exactly the midpoint of those two.
C16_RingAndLerp ==
    /\ ring_pc \in {"constructed", "lerped"} =>
         /\ \E q \in 0..Min(display_w, display_h) :
               /\ 2 * q <= Min(display_w, display_h)
               /\ Min(display_w, display_h) < 2 * q + 2
               /\ azimuth_r2 = q
         /\ azimuth_r1 = azimuth_r2 - 70
         /\ (display_w = 1872 /\ display_h = 1404) =>
               azimuth_r1 = 632 /\ azimuth_r2 = 702
    /\ ring_pc = "lerped" =>
         /\ altitude = 0 => lerp90 = 90 * (azimuth_r1 + 10)
         /\ altitude = 90 => lerp90 = 90 * (azimuth_r2 - 10)
         /\ altitude = 45 => 2 * lerp90 = 90 * ((azimuth_r1 + 10) + (azimuth_r2 - 10))
         /\ (display_w = 1872 /\ display_h = 1404) =>
               /\ altitude = 0 => lerp90 = 90 * 642
               /\ altitude = 90 => lerp90 = 90 * 692
               /\ altitude = 45 => lerp90 = 90 * 667

\* C16 witness: the zenith interpolated on the 1872x1404 display.
C16_Witness ==
    /\ ring_pc = "lerped"
    /\ display_w = 1872
    /\ display_h = 1404
    /\ altitude = 90
    /\ lerp90 = 90 * 692

----------------------------------------------------------------------------
(* Properties of the Moon position sample *)

\* the inputs the specification calls valid
ValidPlace ==
    /\ (0 - 90) <= smp_lat /\ smp_lat <= 90
    /\ (0 - 180) <= smp_lon /\ smp_lon <= 180

ValidSample ==
    /\ smp_aware
    /\ ValidPlace
    /\ 0 <= smp_ra /\ smp_ra < 24
    /\ (0 - 90) <= smp_dec /\ smp_dec <= 90

\* C17: for every valid input the altitude lies in [-90, 90] and the
\* azimuth in [0, 360); the azimuth is never exactly 360.
C17_AnglesInRange ==
    ValidSample =>
        /\ smp_alt # NoAngle => ((0 - 90) <= smp_alt /\ smp_alt <= 90)
        /\ smp_az # NoAngle => (0 <= smp_az /\ smp_az < 360)

\* C18: evaluating azimuth never raises for a valid input; a finite azimuth
\* is returned also where the denominator is 0 or the cosine falls outside
\* of [-1, 1].
C18_AzimuthNeverRaises ==
    (ValidSample /\ smp_op = "azimuth") =>
        /\ smp_pc = "has_azimuth"
        /\ smp_az # NoAngle

\* C19: a sample with a latitude or longitude out of range or with a naive
\* timestamp is rejected at construction, before any derived quantity is
\* computed.
C19_InvalidRejected ==
    (smp_pc \notin {"idle", "new"} /\ ~ (smp_aware /\ ValidPlace)) =>
        /\ smp_pc = "raised"
        /\ smp_op = ""

----------------------------------------------------------------------------
(* Provider calls of one evaluation of nearest_rise_and_set *)

IsRiseQuery(q) == q[1] = "rise"
IsSetQuery(q) == q[1] = "set"
RiseQueries == SelectSeq(asked, IsRiseQuery)
SetQueries == SelectSeq(asked, IsSetQuery)

\* C23: one evaluation asks for at most two rises, that of t's UTC date and
\* then that of the previous or of the next date, and for at most two sets,
\* that of the rise's date and then that of the date after it; the rises
\* are asked before the sets and no other date is asked for.
C23_BoundedQueries ==
    /\ Len(RiseQueries) <= 2
    /\ Len(SetQueries) <= 2
    /\ asked = RiseQueries \o SetQueries
    /\ Len(RiseQueries) >= 1 => RiseQueries[1][2] = Today
    /\ Len(RiseQueries) = 2 => RiseQueries[2][2] \in {Today - 1, Today + 1}
    /\ Len(SetQueries) >= 1 =>
         /\ IsTime(rise_dt)
         /\ SetQueries[1][2] = rise_dt \div DayLen
    /\ Len(SetQueries) = 2 => SetQueries[2][2] = rise_dt \div DayLen + 1
    /\ pc \notin {"idle", "line120"} => Len(RiseQueries) >= 1

\* C23 witness: a pair was returned after two rise and two set queries.
C23_Witness ==
    /\ Returned
    /\ Len(RiseQueries) = 2
    /\ Len(SetQueries) = 2

----------------------------------------------------------------------------
(* Properties of the ephemeris lookup *)

\* the hour nearest to the instant, half hours going up, counted from the
\* first hour of the instant's year
NearestHour == (eph_dt.hour * 60 + eph_dt.minute + 30) \div 60

\* the time text of that hour
NearestHourText ==
    IF NearestHour >= HoursPerYear
      THEN <<eph_dt.year + 1, NearestHour - HoursPerYear, 0>>
      ELSE <<eph_dt.year, NearestHour, 0>>

\* C21: an instant with minute < 30 in hour H resolves to the line of H:00
\* and one with minute >= 30 to the line of (H+1):00, so the line found
\* depends only on the nearest hour; an instant without such a line in the
\* file of its year ends with ValueError.
C21_NearestHourRow ==
    /\ eph_pc = "returned" =>
         /\ eph_row.time = NearestHourText
         /\ eph_file.rows[eph_row.line] = NearestHourText
         /\ eph_dt.minute < 30 => eph_row.time = <<eph_dt.year, eph_dt.hour, 0>>
         /\ eph_err = ""
    /\ eph_pc = "raised" =>
         /\ eph_err = "ValueError"
         /\ eph_row = <<>>
         /\ \A i \in 1..Len(eph_file.rows) : eph_file.rows[i] # NearestHourText
    /\ eph_pc \in {"returned", "raised"} =>
         (eph_pc = "returned" <=>
            \E i \in 1..Len(eph_file.rows) : eph_file.rows[i] = NearestHourText)

\* C21 witness: minute 30 of an hour resolved to the line of the next hour.
C21_Witness ==
    /\ eph_pc = "returned"
    /\ eph_dt.minute = 30
    /\ eph_row.time = <<eph_dt.year, eph_dt.hour + 1, 0>>

----------------------------------------------------------------------------
(* Properties of _fetch_with_retries *)

RetryEnded == rt_pc \in {"done", "raised"}

\* C22: only URLError is retried; with n delays there are at most n + 1
\* attempts, the delays are slept in list order, one between each two
\* consecutive attempts; the first success ends the attempts, and when the
\* last attempt fails with URLError that URLError is raised; the call
\* always ends.
C22_RetriesOnlyURLError ==
    /\ []( /\ Len(rt_outcomes) <= Len(rt_given) + 1
           /\ \A i \in 1..(Len(rt_outcomes) - 1) : rt_outcomes[i] = "URLError"
           /\ Len(rt_slept) <= Len(rt_given)
           /\ \A i \in 1..Len(rt_slept) : rt_slept[i] = rt_given[i]
           /\ rt_pc = "try" => Len(rt_slept) = Len(rt_outcomes)
           /\ RetryEnded => Len(rt_slept) = Len(rt_outcomes) - 1
           /\ (rt_pc = "raised" /\ rt_outcomes[Len(rt_outcomes)] = "URLError") =>
                /\ rt_err = "URLError"
                /\ Len(rt_outcomes) = Len(rt_given) + 1 )
    /\ <>RetryEnded

----------------------------------------------------------------------------
(* Properties of the live position indicator *)

HasCommand(name) == \E i \in 1..Len(ind_cmds) : ind_cmds[i][1] = name

\* C24: the pointer line from the inner to the outer radius is always
\* drawn, rotated to the current azimuth (to the tenth of a degree); the
\* altitude dot is drawn if and only if the altitude is above 0; when the
\* dot is hidden the time text is anchored at the radius of altitude 45,
\* otherwise at the dot.
C24_IndicatorDrawn ==
    ring_pc = "drawn" =>
        /\ \E i \in 1..(Len(ind_cmds) - 1) :
              /\ ind_cmds[i][1] = "rotate"
              /\ Abs(10 * ind_cmds[i][2] - ind_az100) <= 5
              /\ ind_cmds[i + 1] = <<"line", azimuth_r1, azimuth_r2>>
        /\ HasCommand("circle") <=> altitude > 0
        /\ altitude <= 0 =>
              2 * ind_text.radius90 = 90 * ((azimuth_r1 + 10) + (azimuth_r2 - 10))
        /\ altitude > 0 =>
              /\ ind_text.radius90 = altitude * (azimuth_r2 - azimuth_r1 - 20) + 90 * (azimuth_r1 + 10)
              /\ \E i \in 1..Len(ind_cmds) : ind_cmds[i] = <<"translate", ind_text.radius90>>

\* C24 witness: drawn at altitude 0: no dot, the text at the radius of 45.
C24_Witness ==
    /\ ring_pc = "drawn"
    /\ altitude = 0
    /\ ~ HasCommand("circle")
    /\ HasCommand("line")
    /\ ind_text # <<>>

----------------------------------------------------------------------------
(* Properties of _draw_cardinal_directions *)

\* the positions of the current sample, the rise and the set
Positions == <<cur_az>> \o pair_azs

\* no position is less than 4 degrees around the circle from azimuth a
ClearOfPositions(a) ==
    \A i \in 1..Len(Positions) : CircDist(a, Positions[i] % FullTurn) >= 4

IsEmitted(text) == \E i \in 1..Len(card_labels) : card_labels[i] = text

\* the place of a label in the order N, E, S, W
Rank(text) == CHOOSE n \in 1..4 : <<"N", "E", "S", "W">>[n] = text

\* C25: when _draw_cardinal_directions returns, each of N (0), E (90),
\* S (180), W (270) is emitted exactly when none of the current, rise and set
\* azimuths is closer than 4 degrees around the circle to it (a position
\* exactly 4 degrees away does not suppress the label); each decision looks
\* at its own azimuth only, and the emitted labels are in the order N, E, S, W.
C25_CardinalLabels ==
    card_pc = "returned" =>
        /\ IsEmitted("N") <=> ClearOfPositions(0)
        /\ IsEmitted("E") <=> ClearOfPositions(90)
        /\ IsEmitted("S") <=> ClearOfPositions(180)
        /\ IsEmitted("W") <=> ClearOfPositions(270)
        /\ \A i \in 1..Len(card_labels) : card_labels[i] \in {"N", "E", "S", "W"}
        /\ \A i, j \in 1..Len(card_labels) :
              i < j => Rank(card_labels[i]) < Rank(card_labels[j])

\* N is suppressed across the 0/360 seam, W by the set, S is exactly 4
\* degrees from the rise and is drawn after E
C25_Witness ==
    /\ card_pc = "returned"
    /\ cur_az = 357
    /\ pair_azs = <<176, 273>>
    /\ card_labels = <<"E", "S">>

----------------------------------------------------------------------------
(* Properties of the time labels of _draw_moon_path *)

HasTimeLabel(text) == \E i \in 1..Len(time_labels) : time_labels[i].text = text

\* the rise or set azimuth a is at least 8 degrees around the circle from
\* the current position
ClearOfCurrent(a) == CircDist(a % FullTurn, cur_az % FullTurn) >= 8

\* C26: when _draw_moon_path returns, the rise time label is emitted exactly
\* when the rise azimuth is at circular distance of at least 8 degrees from
\* the azimuth of the current position, and the set time label likewise for
\* the set azimuth; nothing else (the other end of the path, the cardinal
\* labels) enters either decision, and the path curve is emitted in any case.
C26_TimeLabels ==
    path_pc = "returned" =>
        /\ HasTimeLabel("path")
        /\ HasTimeLabel("rise") <=> ClearOfCurrent(pair_azs[1])
        /\ HasTimeLabel("set") <=> ClearOfCurrent(pair_azs[2])

\* rise and set lie 1 degree apart and both labels are drawn, the rise
\* exactly 8 degrees from the current position
C26_Witness ==
    /\ path_pc = "returned"
    /\ cur_az = 90
    /\ pair_azs = <<98, 97>>
    /\ HasTimeLabel("path")
    /\ HasTimeLabel("rise")
    /\ ~ HasTimeLabel("set")

\* the label across the 0/360 seam from the current position is left out
C26_WitnessSeam ==
    /\ path_pc = "returned"
    /\ cur_az = 357
    /\ pair_azs = <<0, 5>>
    /\ Len(time_labels) = 2
    /\ time_labels[2].text = "set"

----------------------------------------------------------------------------
(* Properties of a run of main *)

\* the outcome of a call in this run ("" = the call was not made)
OutcomeOf(call) ==
    IF \E i \in 1..Len(run_log) : run_log[i][1] = call
      THEN run_log[CHOOSE i \in 1..Len(run_log) : run_log[i][1] = call][2]
      ELSE ""

Called(call) == OutcomeOf(call) # ""

\* the run is over: the script ended or an exception left it
RunOver == run_pc \in {"ended", "crashed"}

\* the run got as far as comparing the urls (line 172)
ComparedUrls == run_last # NoFile

\* the call is on record before any later one
Precedes(a, b) ==
    \A j \in 1..Len(run_log) : run_log[j][1] = b =>
        \E i \in 1..(j - 1) : run_log[i][1] = a

\* C27: in a run of main that gets as far as comparing the urls, the raw
\* image is downloaded exactly when the fetched url differs from the cached
\* one (no cached metadata counts as different) and is then pre-processed;
\* processing is started exactly when the download succeeded, and after it;
\* annotation is started exactly when no step before it raised.  A run whose
\* metadata fetch or geometry raises does none of the three.
C27_DownloadWhenNew ==
    RunOver =>
        /\ Called("download_image") <=>
              (ComparedUrls /\ (run_cache0 = None \/ run_dam # run_cache0))
        /\ Called("process_dam_image") <=> OutcomeOf("download_image") = "ok"
        /\ Precedes("download_image", "process_dam_image")
        /\ Called("annotate_dam_image") <=>
              /\ OutcomeOf("fetch_dialamoon") = "ok"
              /\ OutcomeOf("geometry") = "ok"
              /\ OutcomeOf("download_image") \in {"", "ok"}
              /\ OutcomeOf("process_dam_image") \in {"", "ok"}
        /\ Precedes("process_dam_image", "annotate_dam_image")
              \/ ~ Called("process_dam_image")

\* a later run fetches the url of the cached metadata: nothing is downloaded
\* and the image is annotated
C27_Witness ==
    /\ RunOver
    /\ run_no = 1
    /\ run_cache0 = 1
    /\ run_dam = 1
    /\ ~ Called("download_image")
    /\ OutcomeOf("annotate_dam_image") = "ok"

\* a later run fetches another url: download, processing, annotation
C27_WitnessNew ==
    /\ RunOver
    /\ run_cache0 = 1
    /\ run_dam = 2
    /\ run_log[3] = <<"download_image", "ok">>
    /\ run_log[4] = <<"process_dam_image", "ok">>
    /\ run_log[5] = <<"annotate_dam_image", "ok">>

\* one of the steps inside the try statement raised
StepRaised ==
    \E call \in {"fetch_dialamoon", "geometry", "download_image",
                  "process_dam_image", "annotate_dam_image"} :
        OutcomeOf(call) = "raised"

\* C28: when a step of a run (metadata fetch, geometry, download,
\* processing, annotation) raised, at the end of the run the final image is
\* a debug image, the display command was invoked if one was given, and the
\* cached metadata is what it was when the run started; the cached metadata
\* is written only in a run in which no step raised and the display command,
\* if given, succeeded.
C28_DebugOnFailure ==
    /\ (RunOver /\ StepRaised) =>
          /\ disk_final.kind = "debug"
          /\ run_argv => Called("display_dam_image")
          /\ disk_cache = run_cache0
    /\ Called("cache_dam") =>
          /\ ~ StepRaised
          /\ OutcomeOf("annotate_dam_image") = "ok"
          /\ run_argv => OutcomeOf("display_dam_image") = "ok"
    /\ (RunOver /\ ~ Called("cache_dam")) => disk_cache = run_cache0

\* C28, amended: when a step of a run raised, produce_debug_image is called
\* and the cached metadata is what it was when the run started; if the debug
\* image is produced it is the final image and the display command is still
\* invoked when one was given, and if producing it raises the run ends
\* there, without the display command.  The cached metadata is written only
\* in a run in which no step raised and the display command, if given,
\* succeeded.
C28_DebugUnlessDebugFails ==
    /\ (RunOver /\ StepRaised) =>
          /\ Called("produce_debug_image")
          /\ disk_cache = run_cache0
          /\ IF OutcomeOf("produce_debug_image") = "ok"
               THEN /\ disk_final.kind = "debug"
                    /\ run_argv => Called("display_dam_image")
               ELSE /\ run_pc = "crashed"
                    /\ ~ Called("display_dam_image")
    /\ Called("cache_dam") =>
          /\ ~ StepRaised
          /\ OutcomeOf("annotate_dam_image") = "ok"
          /\ run_argv => OutcomeOf("display_dam_image") = "ok"
    /\ (RunOver /\ ~ Called("cache_dam")) => disk_cache = run_cache0

\* the annotation of a new image raises: debug image, display, old metadata
C28_Witness ==
    /\ run_pc = "ended"
    /\ run_argv
    /\ run_cache0 = 1
    /\ run_dam = 2
    /\ OutcomeOf("annotate_dam_image") = "raised"
    /\ disk_final.kind = "debug"
    /\ OutcomeOf("display_dam_image") = "ok"
    /\ disk_cache = 1

\* C29: between runs, when the cached metadata records url U the processed
\* image was produced from the raw image of U; and a run that skipped the
\* download because the fetched url equals the cached one has annotated the
\* image of that url.
C29_ProcessedMatchesCache ==
    RunOver =>
        /\ disk_cache # None => disk_proc = disk_cache
        /\ (ComparedUrls /\ ~ Called("download_image")
               /\ OutcomeOf("annotate_dam_image") = "ok")
             => disk_final = [kind |-> "annotated", url |-> run_dam]

----------------------------------------------------------------------------
(* Properties of the geometry across time zones *)

\* C30: two samples whose timestamps denote the same instant in whatever
\* time zones, with equal location and equatorial coordinates, derive the
\* same local_sidereal_time, and with it the same hour angle, altitude and
\* azimuth.
C30_OffsetIndependent ==
    (zn_out_a # <<>> /\ zn_out_b # <<>> /\ Instant(zn_a) = Instant(zn_b)) =>
        /\ zn_out_a.lst = zn_out_b.lst
        /\ zn_out_a.ha = zn_out_b.ha
        /\ zn_out_a.alt = zn_out_b.alt
        /\ zn_out_a.az = zn_out_b.az

====
